---- MODULE Spec2Model ----
(***************************************************************************)
(* Game-Tracker browser client (static/js/app.js, last revision in the     *)
(* file): the view-state engine.  The in-memory cache allGames, the        *)
(* filters and sort key, the rendered games list, the authentication flag, *)
(* batch selection, the Top-10 draft, and the REST backend it talks to.    *)
(* Strings are sequences of one-character strings so that toLowerCase and  *)
(* includes are computed, not assumed.                                     *)
(***************************************************************************)
EXTENDS Integers, Sequences, FiniteSets, Bags, TLC

\* ------------------------------------------------------------------ bounds

\* Number of operations the user starts in the batch model.
MaxBatchOps == 3

\* Number of operations the user starts in the forms model.
MaxFormOps == 3

\* Number of games in the array the user imports.
MaxImport == 2

\* Number of catalogue games the backend of the games-list model can hold.
MaxGames == 2
\* Longest allGames drawn for the derivation model.
MaxDeriveLen == 2
\* Requests in flight beyond which the user starts no further operation.
MaxInFlight == 2
\* Operations the user starts in one run.
MaxUserOps == 3
\* Edits (add, remove, reorder) made to the Top-10 draft in one run.
MaxTop10Edits == 2
\* Cancels, closes and saves of the Top-10 editor in one run.
MaxTop10Sends == 1

\* ----------------------------------------------------------------- strings

\* JavaScript null / undefined for an optional string field.
NullStr == <<"<null>">>
\* JavaScript null / undefined for an optional list of strings.
NullList == << <<"<null>">> >>
\* JavaScript null / undefined for an optional status, platform or date.
NullName == "<null>"
\* JavaScript null / undefined for an optional number.
NullNum == 0 - 1

LowerChar(c) ==
  CASE c = "A" -> "a" [] c = "B" -> "b" [] c = "C" -> "c" [] c = "P" -> "p"
    [] c = "S" -> "s" [] OTHER -> c

\* String.prototype.toLowerCase
ToLowerCase(s) == [i \in 1..Len(s) |-> LowerChar(s[i])]

\* String.prototype.includes
Includes(s, sub) == \E i \in 0..(Len(s) - Len(sub)) : SubSeq(s, i + 1, i + Len(sub)) = sub

\* (x || '') for an optional string
OrEmptyStr(x) == IF x = NullStr THEN <<>> ELSE x

\* (x || []) for an optional list
OrEmptyList(x) == IF x = NullList THEN <<>> ELSE x

\* (x || '') for an optional status or platform
OrEmptyName(x) == IF x = NullName THEN "" ELSE x

\* (x || 100): a missing number taken as a large one.
OrHundred(x) == IF x = NullNum THEN 100 ELSE x

\* (x || 0) for an optional number
OrZero(x) == IF x = NullNum THEN 0 ELSE x

\* The text of a status or platform name.
Chars(name) ==
  CASE name = "PC" -> <<"P", "C">>
    [] name = "Switch" -> <<"S", "w", "i", "t", "c", "h">>
    [] name = "Playing" -> <<"P", "l", "a", "y", "i", "n", "g">>
    [] name = "Completed" -> <<"C", "o", "m", "p", "l", "e", "t", "e", "d">>
    [] name = "Backlog" -> <<"B", "a", "c", "k", "l", "o", "g">>
    [] OTHER -> <<>>

\* ------------------------------------------------------------------- games

\* Capacity of the Top-10 list.
Top10Capacity == 10

Game(id, title, notes, tags, status, platform, hours, rating, pct, created, steam) ==
  [id |-> id, title |-> title, notes |-> notes, tags |-> tags, status |-> status,
   platform |-> platform, hours_played |-> hours, rating |-> rating,
   completion_percentage |-> pct, created_at |-> created, steam_app_id |-> steam,
   is_favorite |-> FALSE, completion_date |-> NullName]

Letters == <<"a", "b", "A", "B">>

\* A plain library game: a two-letter title of its own, no notes, no tags.
PlainGame(id) ==
  Game(id, <<Letters[((id - 1) \div 4) + 1], Letters[((id - 1) % 4) + 1]>>, NullStr,
       NullList, "Playing", "PC", id, NullNum, NullNum, id, NullNum)

\* The games the backend can hold, by id (rows of the backend's games table):
\* four that differ in every field the filters and comparators read, then plain
\* ones, one more than the Top-10 holds.
Catalog ==
  <<Game(1, <<"A", "b">>, NullStr, NullList, "Playing", "PC", 5, 3, 50, 1, 7),
    Game(2, <<"B", "a">>, <<"a", "B">>, <<>>, "Completed", "PC", 20, 5, NullNum, 2, NullNum),
    Game(3, <<"b", "b">>, <<>>, << <<"A">>, <<"a", "b">> >>, "Playing", "Switch",
         NullNum, NullNum, 50, 3, 9),
    Game(4, <<"B", "A">>, <<"b">>, << <<"B">> >>, "Backlog", NullName, 5, 3, 100, 3, NullNum)>>
  \o [i \in 1..(Top10Capacity - 3) |-> PlainGame(i + 4)]

Ids(games) == {games[i].id : i \in 1..Len(games)}

\* Array.prototype.findIndex(g => g.id === id), 0 when there is none
FindIndex(games, id) ==
  IF \E i \in 1..Len(games) : games[i].id = id
  THEN CHOOSE i \in 1..Len(games) :
         games[i].id = id /\ \A j \in 1..(i - 1) : games[j].id # id
  ELSE 0

\* ----------------------------------------------------------- re-derivation

SortKeys ==
  {"title", "title-desc", "hours", "hours-asc", "rating", "rating-asc",
   "completion", "completion-asc", "status", "platform", "recent"}

\* Collation of one character: the letter first, the case as the tie-break.
PrimaryRank(c) == IF LowerChar(c) = "a" THEN 1 ELSE 2
CaseRank(c) == IF c = LowerChar(c) THEN 0 ELSE 1

\* Lexicographic comparison of two sequences of numbers: -1, 0 or 1.
RECURSIVE LexCompare(_, _)
LexCompare(x, y) ==
  IF x = <<>> /\ y = <<>> THEN 0
  ELSE IF x = <<>> THEN 0 - 1
  ELSE IF y = <<>> THEN 1
  ELSE IF Head(x) < Head(y) THEN 0 - 1
  ELSE IF Head(x) > Head(y) THEN 1
  ELSE LexCompare(Tail(x), Tail(y))

PrimaryKey(s) == [i \in 1..Len(s) |-> PrimaryRank(s[i])]
CaseKey(s) == [i \in 1..Len(s) |-> CaseRank(s[i])]

\* String.prototype.localeCompare on titles
LocaleCompare(x, y) ==
  IF LexCompare(PrimaryKey(x), PrimaryKey(y)) # 0
  THEN LexCompare(PrimaryKey(x), PrimaryKey(y))
  ELSE LexCompare(CaseKey(x), CaseKey(y))

\* Collation order of the status and platform names the model uses.
NameRank(n) ==
  CASE n = "" -> 0 [] n = "Backlog" -> 1 [] n = "Completed" -> 2 [] n = "PC" -> 3
    [] n = "Playing" -> 4 [] n = "Switch" -> 5 [] OTHER -> 6

\* A comparison that answers "is greater" (1 or 0) instead of a sign.
NameCompareAsBoolean(x, y) == IF NameRank(x) > NameRank(y) THEN 1 ELSE 0

\* String.prototype.localeCompare on status and platform names
NameCompare(x, y) == NameRank(x) - NameRank(y)

\* The comparator of applySortingAndFiltering: negative, zero or positive.
Compare(a, b, sort) ==
  CASE sort = "title" -> LocaleCompare(a.title, b.title)
    [] sort = "title-desc" -> LocaleCompare(b.title, a.title)
    [] sort = "hours" -> OrZero(b.hours_played) - OrZero(a.hours_played)
    [] sort = "hours-asc" -> OrZero(a.hours_played) - OrZero(b.hours_played)
    [] sort = "rating" -> OrZero(b.rating) - OrZero(a.rating)
    [] sort = "rating-asc" -> OrZero(a.rating) - OrZero(b.rating)
    [] sort = "completion" ->
         OrZero(b.completion_percentage) - OrZero(a.completion_percentage)
    [] sort = "completion-asc" ->
         OrZero(a.completion_percentage) - OrZero(b.completion_percentage)
    [] sort = "status" -> NameCompare(OrEmptyName(a.status), OrEmptyName(b.status))
    [] sort = "platform" -> NameCompare(OrEmptyName(a.platform), OrEmptyName(b.platform))
    [] OTHER -> b.created_at - a.created_at

\* One step of a sort that is not stable: e goes before its equals.
InsertSortedBeforeEquals(sorted, e, sort) ==
  LET later == {i \in 1..Len(sorted) : Compare(sorted[i], e, sort) >= 0}
      at == IF later = {} THEN Len(sorted) + 1
            ELSE CHOOSE i \in later : \A j \in later : i <= j
  IN SubSeq(sorted, 1, at - 1) \o <<e>> \o SubSeq(sorted, at, Len(sorted))

\* One step of a stable sort: e goes before the first element that must follow it.
InsertSorted(sorted, e, sort) ==
  LET later == {i \in 1..Len(sorted) : Compare(sorted[i], e, sort) > 0}
      at == IF later = {} THEN Len(sorted) + 1
            ELSE CHOOSE i \in later : \A j \in later : i <= j
  IN SubSeq(sorted, 1, at - 1) \o <<e>> \o SubSeq(sorted, at, Len(sorted))

RECURSIVE SortFrom(_, _, _)
SortFrom(sorted, rest, sort) ==
  IF rest = <<>> THEN sorted
  ELSE SortFrom(InsertSorted(sorted, Head(rest), sort), Tail(rest), sort)

\* Array.prototype.sort with the comparator above (stable)
SortGames(games, sort) == SortFrom(<<>>, games, sort)

MatchSearch(game, search) ==
  \/ search = <<>>
  \/ Includes(ToLowerCase(game.title), search)
  \/ Includes(ToLowerCase(OrEmptyStr(game.notes)), search)
  \/ \E i \in 1..Len(OrEmptyList(game.tags)) :
       Includes(ToLowerCase(OrEmptyList(game.tags)[i]), search)

MatchStatus(game, status) == status = "" \/ game.status = status

MatchPlatform(game, platform) == platform = "" \/ game.platform = platform

\* The predicate of the filter pass of applySortingAndFiltering.
MatchesFilters(game, filters) ==
  /\ MatchSearch(game, filters.search)
  /\ MatchStatus(game, filters.status)
  /\ MatchPlatform(game, filters.platform)

\* The filter pass: [...allGames].filter(...)
FilterPass(games, filters) ==
  LET Keep(g) == MatchesFilters(g, filters) IN SelectSeq(games, Keep)

\* The list applySortingAndFiltering hands to renderGames.
Derive(games, filters, sort) == SortGames(FilterPass(games, filters), sort)

\* ------------------------------------------------------------------- state

VARIABLES
  allGames,        \* the cache of games as last fetched
  currentFilters,  \* [search, status, platform]
  currentSort,     \* the sort key
  isLoggedIn,      \* the authenticated-mode flag
  batchMode,       \* batch selection mode
  selectedGames,   \* the set of selected game ids
  batchButton,     \* the toggle-batch-mode button exists (setupBatchButton)
  currentEditId,   \* id of the game in the game modal, 0 for null
  modalOpen,       \* the game modal is shown
  gamesList,       \* the #games-list element: what is rendered
  localStorage,    \* the gameTracker_* keys
  top10Games,      \* the Top-10 list / draft
  isEditingTop10,  \* the Top-10 editor is open
  top10Dom,        \* the Top-10 editor's DOM: modal, search results, selection
  top10Edits,      \* number of edits made to the Top-10 draft so far
  serverGames,     \* backend: the games table, in the order GET /api/games lists it
  serverSession,   \* backend: the browser's session is logged in
  serverTop10,     \* backend: the persisted Top-10
  inflight,        \* bag of requests sent and not yet answered to their handler
  fetchedOk,       \* a fetchGames of this page has succeeded
  fetchOrder,      \* issue order of the fetchGames whose response allGames holds
  userOps,         \* number of operations the user has started so far
  bulk,            \* the running batchUpdateStatus: its iterator, counters, await
  importJob,       \* the running import-json handler: items left, await
  disabled,        \* the trigger controls that are disabled
  comp,            \* the challenge modal: currentCompGame, currentCompEdit, #comp-modal
  ev               \* the step just taken: handler, response it handled, notice shown

gameVars == <<allGames, currentFilters, currentSort, gamesList, localStorage>>
authVars == <<isLoggedIn, batchButton>>
batchVars == <<batchMode, selectedGames>>
modalVars == <<currentEditId, modalOpen>>
top10Vars == <<top10Games, isEditingTop10, top10Dom, top10Edits>>
serverVars == <<serverGames, serverSession, serverTop10>>
fetchVars == <<fetchedOk, fetchOrder>>
bulkVars == <<bulk, importJob, disabled>>
compVars == <<comp>>
vars ==
  <<allGames, currentFilters, currentSort, isLoggedIn, batchMode, selectedGames,
    batchButton, currentEditId, modalOpen, gamesList, localStorage, top10Games,
    isEditingTop10, top10Dom, top10Edits, serverGames, serverSession, serverTop10, inflight,
    fetchedOk, fetchOrder, userOps, bulk, importJob, disabled, comp, ev>>

\* ------------------------------------------------------------ the DOM views

\* #games-list as the page's HTML has it before any render.
InitialList == [kind |-> "initial", cards |-> <<>>, admin |-> FALSE, batch |-> FALSE]

\* #games-list after the catch branch of fetchGames.
ErrorList == [kind |-> "error", cards |-> <<>>, admin |-> FALSE, batch |-> FALSE]

\* renderGames(games): the empty-state placeholder, or one card per game; a card
\* carries the admin handlers if isLoggedIn and a checkbox if batchMode.
RenderGames(games, loggedIn, batch) ==
  IF games = <<>>
  THEN [kind |-> "empty", cards |-> <<>>, admin |-> FALSE, batch |-> FALSE]
  ELSE [kind |-> "cards", cards |-> games, admin |-> loggedIn, batch |-> batch]

\* applySortingAndFiltering(): filter, sort, render.
ApplySortingAndFiltering(games, filters, sort, loggedIn, batch) ==
  RenderGames(Derive(games, filters, sort), loggedIn, batch)

\* The Top-10 editor's DOM when the page loads.
InitialTop10Dom == [modal |-> FALSE, results |-> {}, selection |-> <<>>, timer |-> <<>>]

\* ---------------------------------------------------------------- requests

\* A request in flight.  status: "sent", then what the backend answered.
\* ids / form / num / top10: the request body.  games / flag / top10: the response
\* body.  local, confirmed: what the handler holds across its await.  seq: the
\* place of a fetchGames() call in the order the calls still in flight were made.
Request(op, arg) ==
  [op |-> op, arg |-> arg, ids |-> {}, form |-> "", local |-> FALSE,
   confirmed |-> FALSE, status |-> "sent", games |-> <<>>, flag |-> FALSE,
   top10 |-> <<>>, num |-> NullNum, seq |-> 0]

InFlight == BagToSet(inflight)

Send(bag, r) == bag (+) SetToBag({r})

Take(bag, r) == bag (-) SetToBag({r})

\* The fetchGames() calls in flight, as the places they have in the order the
\* calls were made.
FetchesInFlight(bag) == {r.seq : r \in {q \in BagToSet(bag) : q.op = "fetchGames"}}

\* The largest of a set of places, 0 for the empty set.
Latest(places) == IF places = {} THEN 0 ELSE CHOOSE n \in places : \A m \in places : m <= n

\* GET /api/games of a fetchGames() call made now: it comes after the calls in
\* flight and after the one whose response allGames holds.
FetchGamesRequest ==
  [Request("fetchGames", 0)
     EXCEPT !.seq = 1 + Latest(FetchesInFlight(inflight) \cup {fetchOrder})]

Top10Ops == {"loadTop10", "saveTop10"}

\* The requests in flight that the Top-10 tab (of = TRUE) or the rest of the
\* page (of = FALSE) has sent.
Pending(of) ==
  LET mine == {r \in InFlight : (r.op \in Top10Ops) = of}
      RECURSIVE Count(_)
      Count(rs) == IF rs = {} THEN 0
                   ELSE LET r == CHOOSE x \in rs : TRUE
                        IN CopiesIn(r, inflight) + Count(rs \ {r})
  IN Count(mine)

\* The user starts no further operation on the games tab while MaxInFlight of
\* its requests are in flight.
CanStart == Pending(FALSE) < MaxInFlight

\* The same for the Top-10 tab.
CanStartTop10 == Pending(TRUE) < MaxInFlight

NoEvent == [op |-> "none", resp |-> "none", notice |-> FALSE]

Event(op, resp, notice) == [op |-> op, resp |-> resp, notice |-> notice]

EmptyFilters == [search |-> <<>>, status |-> "", platform |-> ""]

EmptyStorage == [sort |-> "", search |-> <<>>, status |-> "", platform |-> ""]

\* ----------------------------------------------------------------- backend

\* Requests the backend answers with 401 when the session is not logged in.
WriteOps ==
  {"toggleFavorite", "deleteGame", "updateGameFromSteam", "saveGame",
   "batchDeleteGames", "saveTop10", "updateAllSteam", "saveCompletionist"}

RemoveIds(games, ids) == LET Keep(g) == g.id \notin ids IN SelectSeq(games, Keep)

\* The table with one field of the row of that id set.
SetField(games, id, field, value) ==
  [i \in 1..Len(games) |->
     IF games[i].id = id THEN [games[i] EXCEPT ![field] = value] ELSE games[i]]

\* The date the backend records when all achievements are unlocked.
CompletionDay == "2024-01-01"

\* The effect of a write the backend accepts, on its games table.
ServerApply(games, r) ==
  CASE r.op = "toggleFavorite" ->
         LET at == FindIndex(games, r.arg)
         IN IF at = 0 THEN games
            ELSE SetField(games, r.arg, "is_favorite", ~games[at].is_favorite)
    [] r.op = "deleteGame" -> RemoveIds(games, {r.arg})
    [] r.op = "batchDeleteGames" -> RemoveIds(games, r.ids)
    [] r.op = "updateGameFromSteam" ->
         IF r.flag
         THEN SetField(SetField(games, r.arg, "status", "Completed"), r.arg,
                       "completion_date", CompletionDay)
         ELSE games
    [] r.op = "saveGame" ->
         IF r.arg = 0
         THEN LET free == (1..MaxGames) \ Ids(games)
              IN IF free = {} THEN games
                 ELSE Append(games, Catalog[CHOOSE i \in free : \A j \in free : i <= j])
         ELSE SetField(games, r.arg, "status", r.form)
    [] OTHER -> games

\* What the body of the response says beyond the games (is_favorite, logged_in,
\* success or all_achievements_unlocked), given the table after the write.
ResponseFlag(games, session, r) ==
  CASE r.op = "toggleFavorite" ->
         (\E i \in 1..Len(games) : games[i].id = r.arg /\ games[i].is_favorite)
    [] r.op = "checkAuth" -> session
    [] OTHER -> r.flag

\* The backend answers a request: 401 for a write without a session, else it
\* applies the write and answers with the state it then has.
ServerAnswer(r) ==
  /\ r \in InFlight
  /\ r.status = "sent"
  /\ IF r.op \in WriteOps /\ ~serverSession
     THEN /\ inflight' = Send(Take(inflight, r), [r EXCEPT !.status = "http401"])
          /\ UNCHANGED serverVars
     ELSE \E f \in (IF r.op \in {"updateGameFromSteam", "login", "updateAllSteam"}
                     THEN BOOLEAN ELSE {FALSE}) :
            LET q == [r EXCEPT !.flag = f]
                games == ServerApply(serverGames, q)
                session == (r.op = "login" /\ f) \/ serverSession
                top10 == IF r.op = "saveTop10" THEN r.top10 ELSE serverTop10
            IN /\ serverGames' = games
               /\ serverSession' = session
               /\ serverTop10' = top10
               /\ inflight' =
                    Send(Take(inflight, r),
                         [q EXCEPT !.status = "ok", !.games = games,
                                   !.flag = ResponseFlag(games, session, q),
                                   !.top10 = top10])
  /\ ev' = NoEvent
  /\ UNCHANGED <<gameVars, authVars, batchVars, modalVars, top10Vars, fetchVars>>

\* The backend's session ends (expiry, restart).
SessionExpire ==
  /\ serverSession
  /\ serverSession' = FALSE
  /\ ev' = NoEvent
  /\ UNCHANGED <<gameVars, authVars, batchVars, modalVars, top10Vars, serverGames,
                 serverTop10, inflight, fetchVars>>

\* What the handler awaiting r may see: the backend's answer; a 5xx answer of a
\* backend that fails on the request and changes nothing; or a network error
\* (the request or its response is lost).
Outcomes(r) == (IF r.status = "sent" THEN {"http500"} ELSE {r.status}) \cup {"neterr"}

\* --------------------------------------------------------------- page load

\* The script runs from the top: module-level state is initialised, the DOM is
\* the page's HTML, requests of the previous page are abandoned, and checkAuth()
\* is called.
Reloaded ==
  /\ allGames' = <<>>
  /\ currentEditId' = 0
  /\ isLoggedIn' = FALSE
  /\ currentSort' = (IF localStorage.sort = "" THEN "recent" ELSE localStorage.sort)
  /\ currentFilters' = EmptyFilters
  /\ batchMode' = FALSE
  /\ selectedGames' = {}
  /\ batchButton' = FALSE
  /\ modalOpen' = FALSE
  /\ gamesList' = InitialList
  /\ top10Games' = <<>>
  /\ isEditingTop10' = FALSE
  /\ top10Dom' = InitialTop10Dom
  /\ UNCHANGED top10Edits
  /\ fetchedOk' = FALSE
  /\ fetchOrder' = 0
  /\ inflight' = SetToBag({Request("checkAuth", 0)})
  /\ UNCHANGED localStorage

\* The user reloads the page.
PageLoad ==
  /\ Reloaded
  /\ ev' = NoEvent
  /\ UNCHANGED serverVars

\* No batchUpdateStatus is running.  entries/index: the selection as the
\* for-of iterator sees it (0 for an emptied slot) and the slot it is at;
\* started, attempted, failed: the ids selected at the start, the ids a request
\* was sent for, the number of items that failed; message: the counts the
\* final alert shows.
IdleBulk ==
  [phase |-> "idle", entries |-> <<>>, index |-> 0, gameId |-> 0, newStatus |-> "",
   updatedCount |-> 0, completedCount |-> 0,
   started |-> {}, attempted |-> <<>>, failed |-> 0, message |-> <<>>]

\* No import is running.  left: items of the array not yet posted; message:
\* what the final alert shows.
IdleImport ==
  [phase |-> "idle", left |-> 0, attempted |-> 0, failed |-> 0, message |-> [text |-> ""]]

\* No challenge modal: currentCompGame and currentCompEdit are null (0).
IdleComp == [game |-> 0, edit |-> 0, modal |-> FALSE]

\* The games table with the first n catalogue games.
CatalogPrefix(n) == SubSeq(Catalog, 1, n)

Init ==
  /\ allGames = <<>>
  /\ currentEditId = 0
  /\ isLoggedIn = FALSE
  /\ currentSort = "recent"
  /\ currentFilters = EmptyFilters
  /\ batchMode = FALSE
  /\ selectedGames = {}
  /\ batchButton = FALSE
  /\ modalOpen = FALSE
  /\ gamesList = InitialList
  /\ localStorage = EmptyStorage
  /\ top10Games = <<>>
  /\ isEditingTop10 = FALSE
  /\ top10Dom = InitialTop10Dom
  /\ top10Edits = 0
  /\ fetchedOk = FALSE
  /\ fetchOrder = 0
  /\ userOps = 0
  /\ bulk = IdleBulk
  /\ importJob = IdleImport
  /\ disabled = {}
  /\ comp = IdleComp
  /\ inflight = SetToBag({Request("checkAuth", 0)})
  /\ ev = NoEvent
  /\ serverGames \in {CatalogPrefix(n) : n \in 0..MaxGames}
  /\ serverSession \in BOOLEAN
  /\ serverTop10 = <<>>

\* loadSavedFilters(): a saved value that is not empty replaces the filter.
LoadSavedFilters(filters, storage) ==
  [search |-> IF storage.search # <<>> THEN storage.search ELSE filters.search,
   status |-> IF storage.status # "" THEN storage.status ELSE filters.status,
   platform |-> IF storage.platform # "" THEN storage.platform ELSE filters.platform]

\* checkAuth() settles, and its then-callback starts the application:
\* loadSavedFilters, fetchGames(), loadTop10(), setupBatchOperations.
CheckAuthDone(r, out) ==
  /\ r \in InFlight
  /\ r.op = "checkAuth"
  /\ out \in Outcomes(r)
  /\ isLoggedIn' = (IF out = "ok" THEN r.flag ELSE FALSE)
  /\ batchButton' = isLoggedIn'
  /\ currentFilters' = LoadSavedFilters(currentFilters, localStorage)
  /\ inflight' =
       Send(Send(Take(inflight, r), FetchGamesRequest), Request("loadTop10", 0))
  /\ ev' = Event("checkAuth", out, FALSE)
  /\ UNCHANGED <<allGames, currentSort, gamesList, localStorage, batchVars, modalVars,
                 top10Vars, serverVars, fetchVars>>

\* The test of a fetchGames() that does not look at res.ok: the body of an
\* error answer is taken for the list.
ReadOkUnchecked(out) == out \in {"ok", "http401", "http500"}

\* fetchGames() goes on to replace allGames: res.ok holds and res.json() parsed.
ReadOk(out) == out = "ok"

\* fetchGames() settles: a good answer replaces allGames and re-derives the
\* view; anything else shows the error placeholder.
FetchGamesDone(r, out) ==
  /\ r \in InFlight
  /\ r.op = "fetchGames"
  /\ out \in Outcomes(r) \cup (IF r.status = "ok" THEN {"badjson"} ELSE {})
  /\ inflight' = Take(inflight, r)
  /\ IF ReadOk(out)
     THEN /\ allGames' = r.games
          /\ gamesList' =
               ApplySortingAndFiltering(r.games, currentFilters, currentSort,
                                        isLoggedIn, batchMode)
          /\ fetchedOk' = TRUE
     ELSE /\ gamesList' = ErrorList
          /\ UNCHANGED <<allGames, fetchedOk>>
  /\ fetchOrder' = (IF FetchesInFlight(inflight') = {} THEN 0
                    ELSE IF ReadOk(out) THEN r.seq ELSE fetchOrder)
  /\ ev' = Event("fetchGames", out, out # "ok")
  /\ UNCHANGED <<currentFilters, currentSort, localStorage, authVars, batchVars,
                 modalVars, top10Vars, serverVars>>

\* The search term as a filterGames() that kept the case typed would read it.
SearchTermAsTyped(value) == value

\* The search term filterGames() reads from the search box.
SearchTerm(value) == ToLowerCase(value)

\* filterGames(): an input or change event on one of the three filter controls
\* (the browser fires it when the control's value changes); the three controls
\* are read, saved and the view re-derived.  The controls hold what the filters
\* hold (the search box up to case).
FilterGames(field, value) ==
  /\ currentFilters[field] # (IF field = "search" THEN SearchTerm(value) ELSE value)
  /\ currentFilters' =
       [search |-> IF field = "search" THEN SearchTerm(value) ELSE currentFilters.search,
        status |-> IF field = "status" THEN value ELSE currentFilters.status,
        platform |-> IF field = "platform" THEN value ELSE currentFilters.platform]
  /\ localStorage' =
       [localStorage EXCEPT !.search = currentFilters'.search,
                            !.status = currentFilters'.status,
                            !.platform = currentFilters'.platform]
  /\ gamesList' =
       ApplySortingAndFiltering(allGames, currentFilters', currentSort, isLoggedIn,
                                batchMode)
  /\ ev' = NoEvent
  /\ UNCHANGED <<allGames, currentSort, authVars, batchVars, modalVars, top10Vars,
                 serverVars, inflight, fetchVars>>

\* The change handler of #sort-by (fired when the selected option changes).
SortChange(key) ==
  /\ key # currentSort
  /\ currentSort' = key
  /\ localStorage' = [localStorage EXCEPT !.sort = key]
  /\ gamesList' =
       ApplySortingAndFiltering(allGames, currentFilters, key, isLoggedIn, batchMode)
  /\ ev' = NoEvent
  /\ UNCHANGED <<allGames, currentFilters, authVars, batchVars, modalVars, top10Vars,
                 serverVars, inflight, fetchVars>>

\* ------------------------------------------------------- game card handlers

\* The ids of the cards on screen whose admin handlers are attached.
AdminCards == IF gamesList.admin THEN Ids(gamesList.cards) ELSE {}

\* allGames.find(g => g.id === id) exists
HasGame(games, id) == FindIndex(games, id) # 0

\* A click on a card's favourite star: toggleFavorite(id) sends its PUT.
ToggleFavorite(id) ==
  /\ CanStart
  /\ id \in AdminCards
  /\ inflight' = Send(inflight, Request("toggleFavorite", id))
  /\ ev' = NoEvent
  /\ UNCHANGED <<gameVars, authVars, batchVars, modalVars, top10Vars, serverVars, fetchVars>>

\* The test of a toggleFavorite that updates the entry whatever the answer.
FavoriteOkUnchecked(out) == TRUE

\* response.ok in toggleFavorite
FavoriteOk(out) == out = "ok"

\* A toggleFavorite that adds the updated game to allGames instead of
\* updating the entry in place.
SetFavoriteByAppend(games, id, value) ==
  LET at == FindIndex(games, id)
  IN IF at = 0 THEN games ELSE Append(games, [games[at] EXCEPT !.is_favorite = value])

\* A toggleFavorite that flips the cached flag instead of taking the value
\* the backend answered with.
SetFavoriteFlipped(games, id, value) ==
  LET at == FindIndex(games, id)
  IN IF at = 0 THEN games ELSE [games EXCEPT ![at].is_favorite = ~@]

\* allGames after toggleFavorite's update of the entry found by id.
SetFavorite(games, id, value) ==
  LET at == FindIndex(games, id)
  IN IF at = 0 THEN games ELSE [games EXCEPT ![at].is_favorite = value]

\* toggleFavorite settles.
ToggleFavoriteDone(r, out) ==
  /\ r \in InFlight
  /\ r.op = "toggleFavorite"
  /\ out \in Outcomes(r)
  /\ inflight' = Take(inflight, r)
  /\ IF FavoriteOk(out) /\ HasGame(allGames, r.arg)
     THEN /\ allGames' = SetFavorite(allGames, r.arg, r.flag)
          /\ gamesList' =
               ApplySortingAndFiltering(allGames', currentFilters, currentSort,
                                        isLoggedIn, batchMode)
     ELSE UNCHANGED <<allGames, gamesList>>
  /\ ev' = Event("toggleFavorite", out, FALSE)
  /\ UNCHANGED <<currentFilters, currentSort, localStorage, authVars, batchVars,
                 modalVars, top10Vars, serverVars, fetchVars>>

\* A click on a card's delete button: deleteGame(id) up to its await.
DeleteGame(id, accept) ==
  /\ CanStart
  /\ id \in AdminCards
  /\ IF ~isLoggedIn
     THEN /\ ev' = Event("deleteGame", "none", TRUE)
          /\ UNCHANGED inflight
     ELSE IF ~accept
     THEN /\ ev' = NoEvent
          /\ UNCHANGED inflight
     ELSE /\ ev' = NoEvent
          /\ inflight' =
               Send(inflight,
                    [Request("deleteGame", id) EXCEPT
                       !.confirmed = TRUE,
                       !.local = (HasGame(allGames, id)
                                  /\ allGames[FindIndex(allGames, id)].steam_app_id # NullNum)])
  /\ UNCHANGED <<gameVars, authVars, batchVars, modalVars, top10Vars, serverVars, fetchVars>>

\* deleteGame settles: a 401 reverts the flag, a network error alerts, any
\* other answer is taken as done and the list is fetched again.
DeleteGameDone(r, out) ==
  /\ r \in InFlight
  /\ r.op = "deleteGame"
  /\ out \in Outcomes(r)
  /\ IF out = "http401"
     THEN /\ isLoggedIn' = FALSE
          /\ inflight' = Take(inflight, r)
          /\ ev' = Event("deleteGame", out, TRUE)
     ELSE IF out = "neterr"
     THEN /\ inflight' = Take(inflight, r)
          /\ ev' = Event("deleteGame", out, TRUE)
          /\ UNCHANGED isLoggedIn
     ELSE /\ inflight' = Send(Take(inflight, r), FetchGamesRequest)
          /\ ev' = Event("deleteGame", out, r.local)
          /\ UNCHANGED isLoggedIn
  /\ UNCHANGED <<gameVars, batchButton, batchVars, modalVars, top10Vars, serverVars,
                 fetchVars>>

\* A click on a card's update-from-Steam button (shown for Steam games).
UpdateGameFromSteam(id, accept) ==
  /\ CanStart
  /\ id \in AdminCards
  /\ \E i \in 1..Len(gamesList.cards) :
       gamesList.cards[i].id = id /\ gamesList.cards[i].steam_app_id # NullNum
  /\ IF ~isLoggedIn
     THEN /\ ev' = Event("updateGameFromSteam", "none", TRUE)
          /\ UNCHANGED inflight
     ELSE IF ~accept
     THEN /\ ev' = NoEvent
          /\ UNCHANGED inflight
     ELSE /\ ev' = NoEvent
          /\ inflight' =
               Send(inflight, [Request("updateGameFromSteam", id) EXCEPT !.confirmed = TRUE])
  /\ UNCHANGED <<gameVars, authVars, batchVars, modalVars, top10Vars, serverVars, fetchVars>>

\* allGames after updateGameFromSteam's local update of the entry found by id.
SetCompleted(games, id, date) ==
  LET at == FindIndex(games, id)
  IN IF at = 0 THEN games
     ELSE [games EXCEPT ![at].status = "Completed", ![at].completion_date = date]

\* updateGameFromSteam settles: result.success alerts and fetches again, after
\* marking the game completed locally when all achievements are unlocked.
UpdateGameFromSteamDone(r, out) ==
  /\ r \in InFlight
  /\ r.op = "updateGameFromSteam"
  /\ out \in Outcomes(r)
  /\ IF out = "ok"
     THEN /\ allGames' = (IF r.flag THEN SetCompleted(allGames, r.arg, CompletionDay)
                          ELSE allGames)
          /\ inflight' = Send(Take(inflight, r), FetchGamesRequest)
     ELSE /\ inflight' = Take(inflight, r)
          /\ UNCHANGED allGames
  /\ ev' = Event("updateGameFromSteam", out, TRUE)
  /\ UNCHANGED <<currentFilters, currentSort, gamesList, localStorage, authVars,
                 batchVars, modalVars, top10Vars, serverVars, fetchVars>>

\* --------------------------------------------------------------- game modal

\* The statuses the game form's select offers in the model.
FormStatuses == {"Playing", "Completed"}

\* A click on #add-game.
AddGame ==
  /\ IF isLoggedIn
     THEN /\ currentEditId' = 0
          /\ modalOpen' = TRUE
          /\ ev' = NoEvent
     ELSE /\ ev' = Event("addGame", "none", TRUE)
          /\ UNCHANGED modalVars
  /\ UNCHANGED <<gameVars, authVars, batchVars, top10Vars, serverVars, inflight, fetchVars>>

\* A click on a card's edit button: editGame(game).
EditGame(id) ==
  /\ id \in AdminCards
  /\ IF isLoggedIn
     THEN /\ currentEditId' = id
          /\ modalOpen' = TRUE
          /\ ev' = NoEvent
     ELSE /\ ev' = Event("editGame", "none", TRUE)
          /\ UNCHANGED modalVars
  /\ UNCHANGED <<gameVars, authVars, batchVars, top10Vars, serverVars, inflight, fetchVars>>

\* closeModal(): the close button, the cancel button or a click on the backdrop.
CloseModal ==
  /\ modalOpen
  /\ modalOpen' = FALSE
  /\ ev' = NoEvent
  /\ UNCHANGED <<gameVars, authVars, batchVars, currentEditId, top10Vars, serverVars,
                 inflight, fetchVars>>

\* parseInt(value) || null of a number field: an empty field and a typed 0 are
\* both sent as null.
ParseIntOrNull(typed) == IF typed = NullNum \/ typed = 0 THEN NullNum ELSE typed

\* A click on #save-game up to its await: the login and title checks, then the
\* PUT (currentEditId set) or POST with the form's fields.
SaveGame(titleGiven, status, rating) ==
  /\ CanStart
  /\ modalOpen
  /\ IF ~isLoggedIn \/ ~titleGiven
     THEN /\ ev' = Event("saveGame", "none", TRUE)
          /\ UNCHANGED inflight
     ELSE /\ ev' = NoEvent
          /\ inflight' = Send(inflight, [Request("saveGame", currentEditId)
                                           EXCEPT !.form = status,
                                                  !.num = ParseIntOrNull(rating)])
  /\ UNCHANGED <<gameVars, authVars, batchVars, modalVars, top10Vars, serverVars, fetchVars>>

\* The save handler settles: 401 alerts and reloads the page, a network error
\* alerts, any other answer closes the modal and fetches the list again.
SaveGameDone(r, out) ==
  /\ r \in InFlight
  /\ r.op = "saveGame"
  /\ out \in Outcomes(r)
  /\ IF out = "http401"
     THEN /\ Reloaded
          /\ ev' = Event("saveGame", out, TRUE)
     ELSE IF out = "neterr"
     THEN /\ inflight' = Take(inflight, r)
          /\ ev' = Event("saveGame", out, TRUE)
          /\ UNCHANGED <<gameVars, authVars, batchVars, modalVars, top10Vars, fetchVars>>
     ELSE /\ modalOpen' = FALSE
          /\ inflight' = Send(Take(inflight, r), FetchGamesRequest)
          /\ ev' = Event("saveGame", out, FALSE)
          /\ UNCHANGED <<gameVars, authVars, batchVars, currentEditId, top10Vars, fetchVars>>
  /\ UNCHANGED serverVars

\* -------------------------------------------------------------------- login

\* A click on #login-btn with a password typed.
Login ==
  /\ CanStart
  /\ ~isLoggedIn
  /\ inflight' = Send(inflight, Request("login", 0))
  /\ ev' = NoEvent
  /\ UNCHANGED <<gameVars, authVars, batchVars, modalVars, top10Vars, serverVars, fetchVars>>

\* The login handler settles: data.success sets the flag; every other outcome alerts.
LoginDone(r, out) ==
  /\ r \in InFlight
  /\ r.op = "login"
  /\ out \in Outcomes(r)
  /\ inflight' = Take(inflight, r)
  /\ isLoggedIn' = (IF out = "ok" /\ r.flag THEN TRUE ELSE isLoggedIn)
  /\ ev' = Event("login", out, TRUE)
  /\ UNCHANGED <<gameVars, batchButton, batchVars, modalVars, top10Vars, serverVars,
                 fetchVars>>

\* -------------------------------------------------------------- batch mode

\* A click on #toggle-batch-mode.
ToggleBatchMode ==
  /\ batchButton
  /\ batchMode' = ~batchMode
  /\ selectedGames' = {}
  /\ gamesList' =
       ApplySortingAndFiltering(allGames, currentFilters, currentSort, isLoggedIn,
                                batchMode')
  /\ ev' = NoEvent
  /\ UNCHANGED <<allGames, currentFilters, currentSort, localStorage, authVars,
                 modalVars, top10Vars, serverVars, inflight, fetchVars>>

\* cancelBatchMode(), as a conjunction the bulk handlers share.
BatchCancelled ==
  /\ batchMode' = FALSE
  /\ selectedGames' = {}
  /\ gamesList' =
       ApplySortingAndFiltering(allGames, currentFilters, currentSort, isLoggedIn, FALSE)

\* A click on #batch-cancel (in the batch bar, shown in batch mode).
CancelBatchMode ==
  /\ batchMode
  /\ BatchCancelled
  /\ ev' = NoEvent
  /\ UNCHANGED <<allGames, currentFilters, currentSort, localStorage, authVars,
                 modalVars, top10Vars, serverVars, inflight, fetchVars>>

\* A change event on a card's selection checkbox.
ToggleSelect(id) ==
  /\ gamesList.batch
  /\ id \in Ids(gamesList.cards)
  /\ selectedGames' =
       (IF id \in selectedGames THEN selectedGames \ {id} ELSE selectedGames \cup {id})
  /\ ev' = NoEvent
  /\ UNCHANGED <<gameVars, authVars, batchMode, modalVars, top10Vars, serverVars,
                 inflight, fetchVars>>

\* A click on #batch-delete up to its await.
BatchDeleteGames(accept) ==
  /\ CanStart
  /\ batchMode
  /\ IF selectedGames = {}
     THEN /\ ev' = Event("batchDeleteGames", "none", TRUE)
          /\ UNCHANGED inflight
     ELSE IF ~accept
     THEN /\ ev' = NoEvent
          /\ UNCHANGED inflight
     ELSE /\ ev' = NoEvent
          /\ inflight' =
               Send(inflight,
                    [Request("batchDeleteGames", 0) EXCEPT
                       !.confirmed = TRUE, !.ids = selectedGames])
  /\ UNCHANGED <<gameVars, authVars, batchVars, modalVars, top10Vars, serverVars, fetchVars>>

\* batchDeleteGames settles: res.ok alerts, leaves batch mode and fetches
\* again; a network error alerts; any other answer does nothing.
BatchDeleteGamesDone(r, out) ==
  /\ r \in InFlight
  /\ r.op = "batchDeleteGames"
  /\ out \in Outcomes(r)
  /\ IF out = "ok"
     THEN /\ BatchCancelled
          /\ inflight' = Send(Take(inflight, r), FetchGamesRequest)
     ELSE /\ inflight' = Take(inflight, r)
          /\ UNCHANGED <<batchVars, gamesList>>
  /\ ev' = Event("batchDeleteGames", out, out \in {"ok", "neterr"})
  /\ UNCHANGED <<allGames, currentFilters, currentSort, localStorage, authVars,
                 modalVars, top10Vars, serverVars, fetchVars>>

\* ---------------------------------------------------------- bulk operations

\* The options of #batch-status in the model: no status, or one.
BatchStatuses == {"", "Playing"}

\* The orders in which a Set of these ids can list them (insertion order).
Orders(ids) ==
  {order \in [1..Cardinality(ids) -> ids] :
     \A i, j \in 1..Cardinality(ids) : order[i] = order[j] => i = j}

\* What a running for-of over selectedGames sees after the Set changed: a
\* deleted id leaves its slot empty, an added id is appended; clear() empties
\* every slot.
SeenBy(b, before, after) ==
  IF b.phase = "idle" THEN b
  ELSE LET emptied == [i \in 1..Len(b.entries) |->
                         IF b.entries[i] \in before \ after THEN 0 ELSE b.entries[i]]
           added == after \ before
       IN [b EXCEPT !.entries =
             emptied \o (IF added = {} THEN <<>> ELSE <<CHOOSE id \in added : TRUE>>)]

\* A handler other than batchUpdateStatus ran: the iterator sees what it did to
\* the selection.
Elsewhere ==
  /\ bulk' = SeenBy(bulk, selectedGames, selectedGames')
  /\ UNCHANGED <<importJob, disabled>>

\* A click on #batch-update up to its first await: alert on an empty
\* selection, confirm, disable the button, start the loop and send the request
\* of the first id.
BatchUpdateStatus(accept, newStatus) ==
  /\ batchMode
  /\ "batch-update" \notin disabled
  /\ IF selectedGames = {}
     THEN /\ ev' = Event("batchUpdateStatus", "none", TRUE)
          /\ UNCHANGED <<bulk, disabled>>
     ELSE IF ~accept
     THEN /\ ev' = NoEvent
          /\ UNCHANGED <<bulk, disabled>>
     ELSE /\ \E order \in Orders(selectedGames) :
               bulk' = [IdleBulk EXCEPT
                          !.phase = "update", !.entries = order, !.index = 1,
                          !.gameId = order[1], !.newStatus = newStatus,
                          !.started = selectedGames, !.attempted = <<order[1]>>]
          /\ disabled' = disabled \cup {"batch-update"}
          /\ ev' = Event("batchUpdateStatus", "started", FALSE)
  /\ UNCHANGED <<gameVars, authVars, batchVars, modalVars, top10Vars, serverVars,
                 inflight, fetchVars, importJob>>

\* The slots after the iterator's that still hold an id.
SlotsLeft(b) == {j \in (b.index + 1)..Len(b.entries) : b.entries[j] # 0}

\* The counts the final alert of batchUpdateStatus shows.
BatchMessage(b) == [updated |-> b.updatedCount, completed |-> b.completedCount]

\* The loop of batchUpdateStatus goes on from b: the request of the next id the
\* iterator yields; or, the iterator done, the alert, cancelBatchMode(),
\* fetchGames() and the finally branch.
BatchContinue(b) ==
  IF SlotsLeft(b) # {}
  THEN LET j == CHOOSE k \in SlotsLeft(b) : \A m \in SlotsLeft(b) : k <= m
       IN /\ bulk' = [b EXCEPT !.phase = "update", !.index = j, !.gameId = b.entries[j],
                               !.attempted = Append(@, b.entries[j])]
          /\ ev' = NoEvent
          /\ UNCHANGED <<batchVars, gamesList, inflight, disabled>>
  ELSE /\ bulk' = [b EXCEPT !.phase = "idle", !.entries = <<>>, !.index = 0,
                            !.gameId = 0, !.message = BatchMessage(b)]
       /\ BatchCancelled
       /\ inflight' = Send(inflight, FetchGamesRequest)
       /\ disabled' = disabled \ {"batch-update"}
       /\ ev' = Event("batchUpdateStatus", "done", TRUE)

\* What an await of a bulk handler resolves to: the call succeeded, the backend
\* refused or failed with a JSON body, or the await threw (network error, body
\* that is not JSON).
ItemOutcomes == {"ok", "refused", "throws"}

\* POST /api/steam/update-game/{id} of the current id settles.
BatchUpdateItemDone(out, allUnlocked) ==
  /\ bulk.phase = "update"
  /\ out \in ItemOutcomes
  /\ out = "ok" => serverSession
  /\ serverGames' =
       (IF out = "ok"
        THEN ServerApply(serverGames,
                         [Request("updateGameFromSteam", bulk.gameId) EXCEPT !.flag = allUnlocked])
        ELSE serverGames)
  /\ IF out = "ok" /\ bulk.newStatus # "" /\ ~allUnlocked
     THEN /\ bulk' = [bulk EXCEPT !.phase = "get", !.updatedCount = @ + 1]
          /\ ev' = NoEvent
          /\ UNCHANGED <<batchVars, gamesList, inflight, disabled>>
     ELSE IF out = "ok"
     THEN BatchContinue([bulk EXCEPT !.updatedCount = @ + 1,
                                     !.completedCount = @ + (IF allUnlocked THEN 1 ELSE 0)])
     ELSE BatchContinue([bulk EXCEPT !.failed = @ + 1])
  /\ UNCHANGED <<allGames, currentFilters, currentSort, localStorage, authVars, modalVars,
                 top10Vars, serverSession, serverTop10, fetchVars, importJob>>

\* GET /api/games/{id} of the current id settles.
BatchUpdateGetDone(out) ==
  /\ bulk.phase = "get"
  /\ out \in {"ok", "throws"}
  /\ IF out = "ok"
     THEN /\ bulk' = [bulk EXCEPT !.phase = "put"]
          /\ ev' = NoEvent
          /\ UNCHANGED <<batchVars, gamesList, inflight, disabled>>
     ELSE BatchContinue([bulk EXCEPT !.failed = @ + 1])
  /\ UNCHANGED <<allGames, currentFilters, currentSort, localStorage, authVars, modalVars,
                 top10Vars, serverVars, fetchVars, importJob>>

\* PUT /api/games/{id} of the current id settles; its response is not read.
BatchUpdatePutDone(out) ==
  /\ bulk.phase = "put"
  /\ out \in ItemOutcomes
  /\ out = "ok" => serverSession
  /\ serverGames' =
       (IF out = "ok"
        THEN ServerApply(serverGames,
                         [Request("saveGame", bulk.gameId) EXCEPT !.form = bulk.newStatus])
        ELSE serverGames)
  /\ BatchContinue(IF out = "ok" THEN bulk ELSE [bulk EXCEPT !.failed = @ + 1])
  /\ UNCHANGED <<allGames, currentFilters, currentSort, localStorage, authVars, modalVars,
                 top10Vars, serverSession, serverTop10, fetchVars, importJob>>

\* A click on #update-all-steam up to its await.
UpdateAllSteam(accept) ==
  /\ "update-all-steam" \notin disabled
  /\ IF ~isLoggedIn
     THEN /\ ev' = Event("updateAllSteam", "none", TRUE)
          /\ UNCHANGED <<inflight, disabled>>
     ELSE IF ~accept
     THEN /\ ev' = NoEvent
          /\ UNCHANGED <<inflight, disabled>>
     ELSE /\ inflight' = Send(inflight, [Request("updateAllSteam", 0) EXCEPT !.confirmed = TRUE])
          /\ disabled' = disabled \cup {"update-all-steam"}
          /\ ev' = NoEvent
  /\ UNCHANGED <<gameVars, authVars, batchVars, modalVars, top10Vars, serverVars,
                 fetchVars, bulk, importJob>>

\* update-all-steam settles: success alerts and calls fetchGames(); a refusal,
\* an error status, a body that is not JSON or a network error alerts; the
\* finally branch enables the button.
UpdateAllSteamDone(r, out) ==
  /\ r \in InFlight
  /\ r.op = "updateAllSteam"
  /\ out \in Outcomes(r)
  /\ inflight' =
       (IF out = "ok" /\ r.flag
        THEN Send(Take(inflight, r), FetchGamesRequest)
        ELSE Take(inflight, r))
  /\ disabled' = disabled \ {"update-all-steam"}
  /\ ev' = Event("updateAllSteam", out, TRUE)
  /\ UNCHANGED <<gameVars, authVars, batchVars, modalVars, top10Vars, serverVars,
                 fetchVars, bulk, importJob>>

\* A click on #import-json up to its first await: the textarea holds an array
\* of n games (n = 0: no array, the catch branch alerts); confirm; POST of the
\* first game.
ImportJson(n, accept) ==
  /\ importJob.phase = "idle"
  /\ IF n = 0
     THEN /\ importJob' = [IdleImport EXCEPT !.message = [text |-> "Invalid JSON"]]
          /\ ev' = Event("importJson", "none", TRUE)
     ELSE IF ~accept
     THEN /\ ev' = NoEvent
          /\ UNCHANGED importJob
     ELSE /\ importJob' = [IdleImport EXCEPT !.phase = "post", !.left = n - 1, !.attempted = 1]
          /\ ev' = Event("importJson", "started", FALSE)
  /\ UNCHANGED <<gameVars, authVars, batchVars, modalVars, top10Vars, serverVars,
                 inflight, fetchVars, bulk, disabled>>

\* POST /api/games of the current item settles; the response is not read.  A
\* throw leaves the loop for the catch branch; after the last item the handler
\* alerts and calls fetchGames().
ImportItemDone(out) ==
  /\ importJob.phase = "post"
  /\ out \in ItemOutcomes
  /\ out = "ok" => serverSession
  /\ serverGames' =
       (IF out = "ok" THEN ServerApply(serverGames, Request("saveGame", 0)) ELSE serverGames)
  /\ IF out = "throws"
     THEN /\ importJob' = [importJob EXCEPT !.phase = "idle", !.failed = @ + 1,
                                            !.message = [text |-> "Invalid JSON"]]
          /\ ev' = Event("importJson", "throws", TRUE)
          /\ UNCHANGED inflight
     ELSE IF importJob.left > 0
     THEN /\ importJob' = [importJob EXCEPT !.left = @ - 1, !.attempted = @ + 1,
                                            !.failed = @ + (IF out = "ok" THEN 0 ELSE 1)]
          /\ ev' = NoEvent
          /\ UNCHANGED inflight
     ELSE /\ importJob' = [importJob EXCEPT !.phase = "idle", !.message = [text |-> "Import complete!"],
                                            !.failed = @ + (IF out = "ok" THEN 0 ELSE 1)]
          /\ inflight' = Send(inflight, FetchGamesRequest)
          /\ ev' = Event("importJson", "done", TRUE)
  /\ UNCHANGED <<gameVars, authVars, batchVars, modalVars, top10Vars, serverSession,
                 serverTop10, fetchVars, bulk, disabled>>

\* ------------------------------------------------------------------ Top-10

\* An entry of top10Games.  position is what the backend stored (0 for an entry
\* the editor added, which has none).
Entry(id, position, why) == [game_id |-> id, position |-> position, why_i_love_it |-> why]

\* What splice leaves in the array when it moves an element that is not there.
Undefined == Entry(0, 0, "")

HasUndefined(list) == \E i \in 1..Len(list) : list[i] = Undefined

EntryIds(list) == {list[i].game_id : i \in 1..Len(list)}

\* renderTop10Selection(): one item per entry, numbered index + 1; an undefined
\* entry throws before the list is replaced.
RenderTop10Selection(list, shown) ==
  IF HasUndefined(list) THEN shown
  ELSE [i \in 1..Len(list) |-> [rank |-> i, game_id |-> list[i].game_id]]

\* A gamesToSave that transmits the position each entry was loaded with.
GamesToSaveAsLoaded(list) ==
  [i \in 1..Len(list) |->
     Entry(list[i].game_id, list[i].position, OrEmptyName(list[i].why_i_love_it))]

\* A gamesToSave that leaves the annotations out.
GamesToSaveWithoutReason(list) ==
  [i \in 1..Len(list) |-> Entry(list[i].game_id, i, "")]

\* saveTop10's gamesToSave
GamesToSave(list) ==
  [i \in 1..Len(list) |->
     Entry(list[i].game_id, i, OrEmptyName(list[i].why_i_love_it))]

\* top10Games.some(top10 => top10.game_id === id) throws: it reaches an
\* undefined entry before an entry of that id.
SomeThrows(list, id) ==
  \E u \in 1..Len(list) :
    /\ list[u] = Undefined
    /\ \A j \in 1..(u - 1) : list[j].game_id # id

\* The games searchAvailableGames lists for a term: not in the Top-10 and the
\* term in the title, a tag or the platform; none when the filter throws.
SearchAvailableGames(games, list, term) ==
  IF \E i \in 1..Len(games) : SomeThrows(list, games[i].id) THEN {}
  ELSE {games[i].id : i \in
          {k \in 1..Len(games) :
             /\ games[k].id \notin EntryIds(list)
             /\ \/ Includes(ToLowerCase(games[k].title), term)
                \/ \E t \in 1..Len(OrEmptyList(games[k].tags)) :
                     Includes(ToLowerCase(OrEmptyList(games[k].tags)[t]), term)
                \/ Includes(ToLowerCase(Chars(OrEmptyName(games[k].platform))), term)}}

\* What the user types into #top10-search in the model.
SearchTerms == {<<"P", "c", " ">>, <<"a", "b">>, <<" ", "a">>}

RECURSIVE TrimStart(_)
TrimStart(s) == IF s # <<>> /\ Head(s) = " " THEN TrimStart(Tail(s)) ELSE s

RECURSIVE TrimEnd(_)
TrimEnd(s) ==
  IF s # <<>> /\ s[Len(s)] = " " THEN TrimEnd(SubSeq(s, 1, Len(s) - 1)) ELSE s

\* String.prototype.trim
Trim(s) == TrimEnd(TrimStart(s))

\* A click on #edit-top10: openTop10Editor().
OpenTop10Editor ==
  /\ IF isLoggedIn
     THEN /\ isEditingTop10' = TRUE
          /\ top10Dom' = [top10Dom EXCEPT !.modal = TRUE, !.results = {}]
          /\ ev' = NoEvent
     ELSE /\ ev' = Event("openTop10Editor", "none", TRUE)
          /\ UNCHANGED <<isEditingTop10, top10Dom>>
  /\ UNCHANGED <<gameVars, authVars, batchVars, modalVars, top10Games, top10Edits,
                 serverVars, inflight, fetchVars>>

\* An input event on #top10-search: both listeners run, the immediate search
\* and the one that restarts the 300 ms timer.
Top10SearchInput(typed) ==
  /\ top10Dom.modal
  /\ LET term == ToLowerCase(Trim(typed))
     IN /\ top10Dom' =
          [top10Dom EXCEPT
             !.results = IF Len(term) < 2 THEN {}
                         ELSE SearchAvailableGames(allGames, top10Games, term),
             !.timer = IF Len(term) < 2 THEN <<>> ELSE term]
        /\ ev' = Event("top10SearchInput", IF Len(term) < 2 THEN "none" ELSE "searched", FALSE)
  /\ UNCHANGED <<gameVars, authVars, batchVars, modalVars, top10Games, isEditingTop10,
                 top10Edits, serverVars, inflight, fetchVars>>

\* The 300 ms timer of the search box fires.
Top10SearchTimer ==
  /\ top10Dom.timer # <<>>
  /\ top10Dom' =
       [top10Dom EXCEPT
          !.results = SearchAvailableGames(allGames, top10Games, top10Dom.timer),
          !.timer = <<>>]
  /\ ev' = Event("top10SearchTimer", "searched", FALSE)
  /\ UNCHANGED <<gameVars, authVars, batchVars, modalVars, top10Games, isEditingTop10,
                 top10Edits, serverVars, inflight, fetchVars>>

\* The capacity test of an addGameToTop10 that lets an eleventh entry in.
Top10FullOffByOne(list) == Len(list) > Top10Capacity

\* top10Games.length >= 10
Top10Full(list) == Len(list) >= Top10Capacity

\* A click on a search result: addGameToTop10(id).
AddGameToTop10(id) ==
  /\ top10Dom.modal
  /\ id \in top10Dom.results
  /\ top10Edits < MaxTop10Edits
  /\ top10Edits' = top10Edits + 1
  /\ IF Top10Full(top10Games)
     THEN /\ ev' = Event("addGameToTop10", "none", TRUE)
          /\ UNCHANGED <<top10Games, top10Dom>>
     ELSE IF ~HasGame(allGames, id)
     THEN /\ ev' = NoEvent
          /\ UNCHANGED <<top10Games, top10Dom>>
     ELSE /\ top10Games' = Append(top10Games, Entry(id, 0, ""))
          /\ top10Dom' =
               [top10Dom EXCEPT
                  !.selection = RenderTop10Selection(top10Games', top10Dom.selection),
                  !.results = IF HasUndefined(top10Games') THEN top10Dom.results ELSE {}]
          /\ ev' = Event("addGameToTop10", "none", FALSE)
  /\ UNCHANGED <<gameVars, authVars, batchVars, modalVars, isEditingTop10, serverVars,
                 inflight, fetchVars>>

\* top10Games.filter(game => game.game_id !== id); an undefined entry throws.
WithoutEntry(list, id) ==
  IF HasUndefined(list) THEN list
  ELSE LET Keep(e) == e.game_id # id IN SelectSeq(list, Keep)

\* A click on the remove button of a selection item: removeFromTop10(id).
RemoveFromTop10(id) ==
  /\ top10Dom.modal
  /\ \E i \in 1..Len(top10Dom.selection) : top10Dom.selection[i].game_id = id
  /\ top10Edits < MaxTop10Edits
  /\ top10Edits' = top10Edits + 1
  /\ top10Games' = WithoutEntry(top10Games, id)
  /\ top10Dom' =
       [top10Dom EXCEPT !.selection = RenderTop10Selection(top10Games', top10Dom.selection)]
  /\ ev' = Event("removeFromTop10", "none", FALSE)
  /\ UNCHANGED <<gameVars, authVars, batchVars, modalVars, isEditingTop10, serverVars,
                 inflight, fetchVars>>

\* list.splice(from, 1) followed by list.splice(to, 0, moved), 0-based.
SpliceMove(list, from, to) ==
  LET moved == IF from < Len(list) THEN list[from + 1] ELSE Undefined
      rest == IF from < Len(list)
              THEN SubSeq(list, 1, from) \o SubSeq(list, from + 2, Len(list))
              ELSE list
      at == IF to > Len(rest) THEN Len(rest) ELSE to
  IN SubSeq(rest, 1, at) \o <<moved>> \o SubSeq(rest, at + 1, Len(rest))

\* The index the drop handler moves the dragged item to.
DropIndex(draggedIndex, dropIndex, lowerHalf) ==
  LET newIndex == IF lowerHalf THEN dropIndex + 1 ELSE dropIndex
  IN IF draggedIndex < newIndex THEN newIndex - 1 ELSE newIndex

\* A selection item is dragged and dropped on another one.
DropTop10(draggedIndex, dropIndex, lowerHalf) ==
  /\ top10Dom.modal
  /\ draggedIndex \in 0..(Len(top10Dom.selection) - 1)
  /\ dropIndex \in 0..(Len(top10Dom.selection) - 1)
  /\ draggedIndex # dropIndex
  /\ top10Edits < MaxTop10Edits
  /\ top10Edits' = top10Edits + 1
  /\ top10Games' =
       SpliceMove(top10Games, draggedIndex, DropIndex(draggedIndex, dropIndex, lowerHalf))
  /\ top10Dom' =
       [top10Dom EXCEPT !.selection = RenderTop10Selection(top10Games', top10Dom.selection)]
  /\ ev' = Event("dropTop10", "none", FALSE)
  /\ UNCHANGED <<gameVars, authVars, batchVars, modalVars, isEditingTop10, serverVars,
                 inflight, fetchVars>>

\* What the user types into an annotation textarea.
ReasonTexts == {"", "love"}

\* top10Games after updateTop10Reason: the first entry of that id gets the
\* text; find throws on an undefined entry it reaches first.
SetReason(list, id, reason) ==
  IF SomeThrows(list, id) \/ id \notin EntryIds(list) THEN list
  ELSE LET at == CHOOSE i \in 1..Len(list) :
                   list[i].game_id = id /\ \A j \in 1..(i - 1) : list[j].game_id # id
       IN [list EXCEPT ![at].why_i_love_it = reason]

\* An input event on the annotation textarea of a selection item:
\* updateTop10Reason(id, text).  Nothing is rendered.
UpdateTop10Reason(id, reason) ==
  /\ top10Dom.modal
  /\ \E i \in 1..Len(top10Dom.selection) : top10Dom.selection[i].game_id = id
  /\ top10Edits < MaxTop10Edits
  /\ top10Edits' = top10Edits + 1
  /\ top10Games' = SetReason(top10Games, id, reason)
  /\ top10Games' # top10Games
  /\ ev' = Event("updateTop10Reason", "none", FALSE)
  /\ UNCHANGED <<gameVars, authVars, batchVars, modalVars, isEditingTop10, top10Dom,
                 serverVars, inflight, fetchVars>>

\* cancelTop10Edit(): leaves editing and calls loadTop10().
CancelTop10Edit ==
  /\ CanStartTop10
  /\ isEditingTop10
  /\ isEditingTop10' = FALSE
  /\ inflight' = Send(inflight, Request("loadTop10", 0))
  /\ ev' = NoEvent
  /\ UNCHANGED <<gameVars, authVars, batchVars, modalVars, top10Games, top10Dom,
                 top10Edits, serverVars, fetchVars>>

\* closeTop10Modal(): the modal's close and cancel buttons, its backdrop, Escape.
CloseTop10Modal ==
  /\ CanStartTop10
  /\ top10Dom.modal
  /\ top10Dom' = [top10Dom EXCEPT !.modal = FALSE]
  /\ isEditingTop10' = FALSE
  /\ inflight' = Send(inflight, Request("loadTop10", 0))
  /\ ev' = NoEvent
  /\ UNCHANGED <<gameVars, authVars, batchVars, modalVars, top10Games, top10Edits,
                 serverVars, fetchVars>>

\* A click on #save-top10 or #save-top10-modal: saveTop10() up to its await.
\* Mapping an undefined entry throws into the catch, which alerts.
SaveTop10 ==
  /\ CanStartTop10
  /\ isEditingTop10 \/ top10Dom.modal
  /\ IF HasUndefined(top10Games)
     THEN /\ ev' = Event("saveTop10", "none", TRUE)
          /\ UNCHANGED inflight
     ELSE /\ ev' = NoEvent
          /\ inflight' =
               Send(inflight, [Request("saveTop10", 0) EXCEPT !.top10 = GamesToSave(top10Games)])
  /\ UNCHANGED <<gameVars, authVars, batchVars, modalVars, top10Vars, serverVars, fetchVars>>

\* saveTop10 settles: response.ok alerts, closes the modal and calls loadTop10()
\* three times (closeTop10Modal, cancelTop10Edit, loadTop10); anything else alerts.
SaveTop10Done(r, out) ==
  /\ r \in InFlight
  /\ r.op = "saveTop10"
  /\ out \in Outcomes(r)
  /\ IF out = "ok"
     THEN /\ top10Dom' = [top10Dom EXCEPT !.modal = FALSE]
          /\ isEditingTop10' = FALSE
          /\ inflight' =
               Send(Send(Send(Take(inflight, r), Request("loadTop10", 0)),
                         Request("loadTop10", 0)),
                    Request("loadTop10", 0))
     ELSE /\ inflight' = Take(inflight, r)
          /\ UNCHANGED <<top10Dom, isEditingTop10>>
  /\ ev' = Event("saveTop10", out, TRUE)
  /\ UNCHANGED <<gameVars, authVars, batchVars, modalVars, top10Games, top10Edits,
                 serverVars, fetchVars>>

\* loadTop10() settles: a body that parses replaces top10Games; a network error
\* or an error page is logged to the console.
LoadTop10Done(r, out) ==
  /\ r \in InFlight
  /\ r.op = "loadTop10"
  /\ out \in Outcomes(r)
  /\ inflight' = Take(inflight, r)
  /\ top10Games' = (IF out = "ok" THEN r.top10 ELSE top10Games)
  /\ ev' = Event("loadTop10", out, FALSE)
  /\ UNCHANGED <<gameVars, authVars, batchVars, modalVars, isEditingTop10, top10Dom,
                 top10Edits, serverVars, fetchVars>>

\* ------------------------------------------------------------ specifications

AllOutcomes == {"ok", "http401", "http500", "neterr", "badjson"}

GameIds == 1..MaxGames

\* The rating field of the game form in the games-tab model: left empty.
TabRatings == {NullNum}

\* What the user types into the search box of the games tab, and the options of
\* its two selects, in the games-tab model.
TabSearchInputs == {<<>>, <<"A", "B">>}
TabStatusOptions == {"", "Completed"}
TabPlatformOptions == {"", "PC"}
TabSortKeys == {"recent", "title", "hours"}

\* The backend answers a request of the Top-10 tab (of = TRUE) or of the rest
\* of the page; its session may end.
Backend(of) ==
  \/ \E r \in InFlight : (r.op \in Top10Ops) = of /\ ServerAnswer(r)
  \/ SessionExpire

\* The handlers of the games tab settle.
GamesSettle ==
  \E r \in InFlight : \E out \in AllOutcomes :
    \/ CheckAuthDone(r, out)
    \/ FetchGamesDone(r, out)
    \/ LoginDone(r, out)
    \/ ToggleFavoriteDone(r, out)
    \/ DeleteGameDone(r, out)
    \/ UpdateGameFromSteamDone(r, out)
    \/ SaveGameDone(r, out)
    \/ BatchDeleteGamesDone(r, out)

\* What the user does on the games tab.
GamesUser ==
  \/ PageLoad
  \/ Login
  \/ \E v \in TabSearchInputs : FilterGames("search", v)
  \/ \E v \in TabStatusOptions : FilterGames("status", v)
  \/ \E v \in TabPlatformOptions : FilterGames("platform", v)
  \/ \E k \in TabSortKeys : SortChange(k)
  \/ \E id \in GameIds : ToggleFavorite(id)
  \/ \E id \in GameIds : \E accept \in BOOLEAN : DeleteGame(id, accept)
  \/ \E id \in GameIds : \E accept \in BOOLEAN : UpdateGameFromSteam(id, accept)
  \/ AddGame
  \/ \E id \in GameIds : EditGame(id)
  \/ CloseModal
  \/ \E t \in BOOLEAN : \E st \in FormStatuses : \E rating \in TabRatings : SaveGame(t, st, rating)
  \/ ToggleBatchMode
  \/ CancelBatchMode
  \/ \E id \in GameIds : ToggleSelect(id)
  \/ \E accept \in BOOLEAN : BatchDeleteGames(accept)

Next ==
  \/ Backend(FALSE) /\ UNCHANGED <<userOps, bulkVars, compVars>>
  \/ GamesSettle /\ UNCHANGED <<userOps, bulkVars, compVars>>
  \/ GamesUser /\ userOps < MaxUserOps /\ userOps' = userOps + 1 /\ UNCHANGED <<bulkVars, compVars>>

\* The games tab: cache, filters, sort, authentication, batch selection.  The
\* answer to the loadTop10() of the page load is still on its way.
Spec == Init /\ [][Next]_vars

\* ------------------------------------------------------------ Top-10 model

\* The persisted Top-10 with the first n catalogue games, ranked in that order:
\* the first annotated, the second with no annotation stored (null), the others
\* with an empty one.
Top10Prefix(n) ==
  [i \in 1..n |-> Entry(i, i, IF i = 1 THEN "classic" ELSE IF i = 2 THEN NullName ELSE "")]

\* Sizes of the persisted Top-10 the Top-10 model starts from.
Top10Sizes == {Top10Capacity - 2, Top10Capacity - 1, Top10Capacity}

\* The page of a logged-in user after fetchGames() has brought the whole
\* catalogue and loadTop10() the persisted Top-10; the backend's session may
\* have ended since.
InitTop10 ==
  /\ allGames = Catalog
  /\ currentEditId = 0
  /\ isLoggedIn = TRUE
  /\ currentSort = "recent"
  /\ currentFilters = EmptyFilters
  /\ batchMode = FALSE
  /\ selectedGames = {}
  /\ batchButton = TRUE
  /\ modalOpen = FALSE
  /\ gamesList = ApplySortingAndFiltering(Catalog, EmptyFilters, "recent", TRUE, FALSE)
  /\ localStorage = EmptyStorage
  /\ top10Games \in {Top10Prefix(n) : n \in Top10Sizes}
  /\ isEditingTop10 = FALSE
  /\ top10Dom = InitialTop10Dom
  /\ top10Edits = 0
  /\ fetchedOk = TRUE
  /\ fetchOrder = 0
  /\ userOps = 0
  /\ bulk = IdleBulk
  /\ importJob = IdleImport
  /\ disabled = {}
  /\ comp = IdleComp
  /\ inflight = EmptyBag
  /\ ev = NoEvent
  /\ serverGames = Catalog
  /\ serverSession \in BOOLEAN
  /\ serverTop10 = top10Games

\* The 0-based indices of the selection items the user drags, and drops on.
DragIndices == {0, Top10Capacity - 1}

\* The entries whose remove button the user clicks, or whose annotation the
\* user edits: the first, and the ones the editor can have added.
RemoveChoices == {1, Top10Capacity, Top10Capacity + 1}

NextTop10 ==
  \/ \E r \in InFlight : r.op \in Top10Ops /\ ServerAnswer(r) /\ UNCHANGED <<userOps, bulkVars, compVars>>
  \/ \E r \in InFlight : \E out \in AllOutcomes : LoadTop10Done(r, out) /\ UNCHANGED <<userOps, bulkVars, compVars>>
  \/ \E r \in InFlight : \E out \in AllOutcomes : SaveTop10Done(r, out) /\ UNCHANGED <<userOps, bulkVars, compVars>>
  \/ OpenTop10Editor /\ UNCHANGED <<userOps, bulkVars, compVars>>
  \/ \E typed \in SearchTerms : Top10SearchInput(typed) /\ UNCHANGED <<userOps, bulkVars, compVars>>
  \/ Top10SearchTimer /\ UNCHANGED <<userOps, bulkVars, compVars>>
  \/ \E id \in Ids(Catalog) : AddGameToTop10(id) /\ UNCHANGED <<userOps, bulkVars, compVars>>
  \/ \E id \in RemoveChoices : RemoveFromTop10(id) /\ UNCHANGED <<userOps, bulkVars, compVars>>
  \/ \E id \in RemoveChoices : \E text \in ReasonTexts :
       UpdateTop10Reason(id, text) /\ UNCHANGED <<userOps, bulkVars, compVars>>
  \/ \E from, to \in DragIndices : \E lowerHalf \in BOOLEAN :
       DropTop10(from, to, lowerHalf) /\ UNCHANGED <<userOps, bulkVars, compVars>>
  \/ CancelTop10Edit /\ userOps < MaxTop10Sends /\ userOps' = userOps + 1 /\ UNCHANGED <<bulkVars, compVars>>
  \/ CloseTop10Modal /\ userOps < MaxTop10Sends /\ userOps' = userOps + 1 /\ UNCHANGED <<bulkVars, compVars>>
  \/ SaveTop10 /\ userOps < MaxTop10Sends /\ userOps' = userOps + 1 /\ UNCHANGED <<bulkVars, compVars>>

\* The Top-10 tab: the editor, its draft and the persisted list.
SpecTop10 == InitTop10 /\ [][NextTop10]_vars

\* The same page a moment earlier: fetchGames() has brought the catalogue, the
\* answer to the loadTop10() of the page's initialisation is still on its way.
InitTop10Loading ==
  /\ allGames = Catalog
  /\ currentEditId = 0
  /\ isLoggedIn = TRUE
  /\ currentSort = "recent"
  /\ currentFilters = EmptyFilters
  /\ batchMode = FALSE
  /\ selectedGames = {}
  /\ batchButton = TRUE
  /\ modalOpen = FALSE
  /\ gamesList = ApplySortingAndFiltering(Catalog, EmptyFilters, "recent", TRUE, FALSE)
  /\ localStorage = EmptyStorage
  /\ top10Games = <<>>
  /\ isEditingTop10 = FALSE
  /\ top10Dom = InitialTop10Dom
  /\ top10Edits = 0
  /\ fetchedOk = TRUE
  /\ fetchOrder = 0
  /\ userOps = 0
  /\ bulk = IdleBulk
  /\ importJob = IdleImport
  /\ disabled = {}
  /\ comp = IdleComp
  /\ inflight = SetToBag({Request("loadTop10", 0)})
  /\ ev = NoEvent
  /\ serverGames = Catalog
  /\ serverSession \in BOOLEAN
  /\ serverTop10 \in {Top10Prefix(n) : n \in Top10Sizes}

\* The search results the user clicks in the loading model: a game of every
\* persisted list, and one of none.
AddChoices == {1, Top10Capacity + 1}

\* Search, add, remove, reorder and cancel in the editor, and the completions
\* of loadTop10().
NextTop10Loading ==
  \/ \E r \in InFlight : r.op \in Top10Ops /\ ServerAnswer(r) /\ UNCHANGED <<userOps, bulkVars, compVars>>
  \/ \E r \in InFlight : \E out \in AllOutcomes : LoadTop10Done(r, out) /\ UNCHANGED <<userOps, bulkVars, compVars>>
  \/ OpenTop10Editor /\ UNCHANGED <<userOps, bulkVars, compVars>>
  \/ \E typed \in SearchTerms : Top10SearchInput(typed) /\ UNCHANGED <<userOps, bulkVars, compVars>>
  \/ Top10SearchTimer /\ UNCHANGED <<userOps, bulkVars, compVars>>
  \/ \E id \in AddChoices : AddGameToTop10(id) /\ UNCHANGED <<userOps, bulkVars, compVars>>
  \/ \E id \in RemoveChoices : RemoveFromTop10(id) /\ UNCHANGED <<userOps, bulkVars, compVars>>
  \/ \E from, to \in DragIndices : \E lowerHalf \in BOOLEAN :
       DropTop10(from, to, lowerHalf) /\ UNCHANGED <<userOps, bulkVars, compVars>>
  \/ CancelTop10Edit /\ userOps < MaxTop10Sends /\ userOps' = userOps + 1 /\ UNCHANGED <<bulkVars, compVars>>

\* The Top-10 editor from the moment the first loadTop10() is in flight.
SpecTop10Loading == InitTop10Loading /\ [][NextTop10Loading]_vars

\* ------------------------------------------------------- derivation model

\* The rows a fetched allGames of the derivation model is drawn from: the four
\* rich catalogue games and one plain one.
DeriveCatalog == SubSeq(Catalog, 1, 5)

\* What the user types into the search box, and the options of the two selects.
SearchInputs == {<<>>, <<"a">>, <<"A", "B">>, <<"b", "a">>}
StatusOptions == {"", "Playing", "Completed"}
PlatformOptions == {"", "PC", "Switch"}

\* Lists of up to MaxDeriveLen different rows, in any order.
DeriveLists ==
  LET picks == UNION {[1..n -> 1..Len(DeriveCatalog)] : n \in 0..MaxDeriveLen}
      distinct == {p \in picks : \A i, j \in 1..Len(p) : p[i] = p[j] => i = j}
  IN {[i \in 1..Len(p) |-> DeriveCatalog[p[i]]] : p \in distinct}

\* The page after its load: fetchGames() has succeeded with some list, nothing
\* is saved in localStorage, no request is in flight.
InitDerive ==
  /\ allGames \in DeriveLists
  /\ currentEditId = 0
  /\ isLoggedIn = FALSE
  /\ currentSort = "recent"
  /\ currentFilters = EmptyFilters
  /\ batchMode = FALSE
  /\ selectedGames = {}
  /\ batchButton = FALSE
  /\ modalOpen = FALSE
  /\ gamesList = ApplySortingAndFiltering(allGames, EmptyFilters, "recent", FALSE, FALSE)
  /\ localStorage = EmptyStorage
  /\ top10Games = <<>>
  /\ isEditingTop10 = FALSE
  /\ top10Dom = InitialTop10Dom
  /\ top10Edits = 0
  /\ fetchedOk = TRUE
  /\ fetchOrder = 0
  /\ userOps = 0
  /\ bulk = IdleBulk
  /\ importJob = IdleImport
  /\ disabled = {}
  /\ comp = IdleComp
  /\ inflight = EmptyBag
  /\ ev = NoEvent
  /\ serverGames = allGames
  /\ serverSession = FALSE
  /\ serverTop10 = <<>>

NextDerive ==
  \/ \E v \in SearchInputs : FilterGames("search", v) /\ UNCHANGED <<userOps, bulkVars, compVars>>
  \/ \E v \in StatusOptions : FilterGames("status", v) /\ UNCHANGED <<userOps, bulkVars, compVars>>
  \/ \E v \in PlatformOptions : FilterGames("platform", v) /\ UNCHANGED <<userOps, bulkVars, compVars>>
  \/ \E k \in SortKeys : SortChange(k) /\ UNCHANGED <<userOps, bulkVars, compVars>>

\* Re-derivation of the visible list from a fetched allGames, under every
\* filter and sort the controls offer.
SpecDerive == InitDerive /\ [][NextDerive]_vars

\* ---------------------------------------------------------------- filtering

\* The batch model: a logged-in page in batch mode with its games loaded and
\* some of them selected.
InitBatch ==
  /\ allGames = CatalogPrefix(MaxGames)
  /\ currentEditId = 0
  /\ isLoggedIn = TRUE
  /\ currentSort = "recent"
  /\ currentFilters = EmptyFilters
  /\ batchMode = TRUE
  /\ selectedGames \in SUBSET GameIds
  /\ batchButton = TRUE
  /\ modalOpen = FALSE
  /\ gamesList = ApplySortingAndFiltering(allGames, EmptyFilters, "recent", TRUE, TRUE)
  /\ localStorage = EmptyStorage
  /\ top10Games = <<>>
  /\ isEditingTop10 = FALSE
  /\ top10Dom = InitialTop10Dom
  /\ top10Edits = 0
  /\ fetchedOk = TRUE
  /\ fetchOrder = 0
  /\ userOps = 0
  /\ bulk = IdleBulk
  /\ importJob = IdleImport
  /\ disabled = {}
  /\ comp = IdleComp
  /\ inflight = EmptyBag
  /\ ev = NoEvent
  /\ serverGames = allGames
  /\ serverSession \in BOOLEAN
  /\ serverTop10 = <<>>

\* The number of games in the textarea when the user clicks import.
ImportSizes == {0, MaxImport}

\* The long-running operations in progress.
Running ==
  {r.op : r \in {q \in InFlight : q.op \in {"batchDeleteGames", "updateAllSteam"}}}
    \cup (IF bulk.phase # "idle" THEN {"batchUpdateStatus"} ELSE {})
    \cup (IF importJob.phase # "idle" THEN {"importJson"} ELSE {})

\* The user starts a long-running operation only while no other one is in
\* progress (a second invocation of the same one is not excluded).
CanStartBulk(op) == Running \subseteq {op}

NextBatch ==
  \/ \E r \in InFlight : ServerAnswer(r) /\ Elsewhere /\ UNCHANGED <<userOps, compVars>>
  \/ \E r \in InFlight : \E out \in AllOutcomes :
       FetchGamesDone(r, out) /\ Elsewhere /\ UNCHANGED <<userOps, compVars>>
  \/ \E r \in InFlight : \E out \in AllOutcomes :
       BatchDeleteGamesDone(r, out) /\ Elsewhere /\ UNCHANGED <<userOps, compVars>>
  \/ \E r \in InFlight : \E out \in AllOutcomes :
       UpdateAllSteamDone(r, out) /\ UNCHANGED <<userOps, compVars>>
  \/ \E out \in ItemOutcomes : \E allUnlocked \in BOOLEAN :
       BatchUpdateItemDone(out, allUnlocked) /\ UNCHANGED <<userOps, compVars>>
  \/ \E out \in ItemOutcomes : BatchUpdateGetDone(out) /\ UNCHANGED <<userOps, compVars>>
  \/ \E out \in ItemOutcomes : BatchUpdatePutDone(out) /\ UNCHANGED <<userOps, compVars>>
  \/ \E out \in ItemOutcomes : ImportItemDone(out) /\ UNCHANGED <<userOps, compVars>>
  \/ ToggleBatchMode /\ Elsewhere /\ userOps < MaxBatchOps /\ userOps' = userOps + 1 /\ UNCHANGED compVars
  \/ CancelBatchMode /\ Elsewhere /\ userOps < MaxBatchOps /\ userOps' = userOps + 1 /\ UNCHANGED compVars
  \/ \E id \in GameIds :
       ToggleSelect(id) /\ Elsewhere /\ userOps < MaxBatchOps /\ userOps' = userOps + 1 /\ UNCHANGED compVars
  \/ \E accept \in BOOLEAN :
       /\ CanStartBulk("batchDeleteGames") /\ BatchDeleteGames(accept) /\ Elsewhere
       /\ userOps < MaxBatchOps /\ userOps' = userOps + 1 /\ UNCHANGED compVars
  \/ \E accept \in BOOLEAN : \E st \in BatchStatuses :
       /\ CanStartBulk("batchUpdateStatus") /\ BatchUpdateStatus(accept, st)
       /\ userOps < MaxBatchOps /\ userOps' = userOps + 1 /\ UNCHANGED compVars
  \/ \E accept \in BOOLEAN :
       /\ CanStartBulk("updateAllSteam") /\ UpdateAllSteam(accept)
       /\ userOps < MaxBatchOps /\ userOps' = userOps + 1 /\ UNCHANGED compVars
  \/ \E n \in ImportSizes : \E accept \in BOOLEAN :
       /\ CanStartBulk("importJson") /\ ImportJson(n, accept)
       /\ userOps < MaxBatchOps /\ userOps' = userOps + 1 /\ UNCHANGED compVars

SpecBatch == InitBatch /\ [][NextBatch]_vars

\* ------------------------------------------------------ challenges and forms

\* Ids of the challenges of a game that its list shows; 0: none (a new one).
ChallengeIds == {0, 1}

\* What the user leaves in #comp-difficulty: nothing (NullNum) or a number typed.
DifficultyInputs == {NullNum, 0, 50, 150}

\* What the user leaves in #input-rating: nothing, or one of its ratings.
FormRatings == {NullNum, 0, 3}

\* value ? parseInt(value) : null of #comp-difficulty.
ParseDifficulty(typed) == typed

\* showCompletionistModal(gameId, existing): the add button of a game's
\* challenge view or the edit button of one of its challenges, both there only
\* when the view was built in authenticated mode.
ShowCompletionistModal(gameId, existing) ==
  /\ isLoggedIn
  /\ HasGame(allGames, gameId)
  /\ comp' = [game |-> gameId, edit |-> existing, modal |-> TRUE]
  /\ ev' = NoEvent
  /\ UNCHANGED <<gameVars, authVars, batchVars, modalVars, top10Vars, serverVars,
                 inflight, fetchVars>>

\* closeCompModal(): #comp-modal is removed and both variables are set to null.
CloseCompModal ==
  /\ comp.modal
  /\ comp' = IdleComp
  /\ ev' = NoEvent
  /\ UNCHANGED <<gameVars, authVars, batchVars, modalVars, top10Vars, serverVars,
                 inflight, fetchVars>>

\* saveCompletionist() up to its await: the title check, then the PUT
\* (currentCompEdit set) or POST under currentCompGame.
SaveCompletionist(titleGiven, typed) ==
  /\ CanStart
  /\ comp.modal
  /\ IF ~titleGiven
     THEN /\ ev' = Event("saveCompletionist", "none", TRUE)
          /\ UNCHANGED inflight
     ELSE /\ ev' = NoEvent
          /\ inflight' =
               Send(inflight,
                    [Request("saveCompletionist", comp.game)
                       EXCEPT !.ids = (IF comp.edit = 0 THEN {} ELSE {comp.edit}),
                              !.num = ParseDifficulty(typed)])
  /\ UNCHANGED <<gameVars, authVars, batchVars, modalVars, top10Vars, serverVars,
                 fetchVars, comp>>

\* saveCompletionist() settles.  The response is not looked at: whatever the
\* backend answered, closeCompModal() runs and then the list is reloaded for
\* currentCompGame as closeCompModal() left it; a fetch that throws alerts.
SaveCompletionistDone(r, out) ==
  /\ r \in InFlight
  /\ r.op = "saveCompletionist"
  /\ out \in Outcomes(r)
  /\ IF out = "neterr"
     THEN /\ inflight' = Take(inflight, r)
          /\ ev' = Event("saveCompletionist", out, TRUE)
          /\ UNCHANGED comp
     ELSE /\ comp' = IdleComp
          /\ inflight' =
               Send(Take(inflight, r), Request("loadCompletionist", comp'.game))
          /\ ev' = Event("saveCompletionist", out, FALSE)
  /\ UNCHANGED <<gameVars, authVars, batchVars, modalVars, top10Vars, serverVars, fetchVars>>

\* loadCompletionistAchievements() settles and fills #comp-list.
LoadCompletionistDone(r, out) ==
  /\ r \in InFlight
  /\ r.op = "loadCompletionist"
  /\ out \in Outcomes(r)
  /\ inflight' = Take(inflight, r)
  /\ ev' = Event("loadCompletionist", out, FALSE)
  /\ UNCHANGED <<gameVars, authVars, batchVars, modalVars, top10Vars, serverVars,
                 fetchVars, comp>>

\* The forms model: a logged-in page with its games loaded, whose session lasts.
InitForms ==
  /\ allGames = CatalogPrefix(MaxGames)
  /\ currentEditId = 0
  /\ isLoggedIn = TRUE
  /\ currentSort = "recent"
  /\ currentFilters = EmptyFilters
  /\ batchMode = FALSE
  /\ selectedGames = {}
  /\ batchButton = TRUE
  /\ modalOpen = FALSE
  /\ gamesList = ApplySortingAndFiltering(allGames, EmptyFilters, "recent", TRUE, FALSE)
  /\ localStorage = EmptyStorage
  /\ top10Games = <<>>
  /\ isEditingTop10 = FALSE
  /\ top10Dom = InitialTop10Dom
  /\ top10Edits = 0
  /\ fetchedOk = TRUE
  /\ fetchOrder = 0
  /\ userOps = 0
  /\ bulk = IdleBulk
  /\ importJob = IdleImport
  /\ disabled = {}
  /\ comp = IdleComp
  /\ inflight = EmptyBag
  /\ ev = NoEvent
  /\ serverGames = allGames
  /\ serverSession = TRUE
  /\ serverTop10 = <<>>

NextForms ==
  \/ \E r \in InFlight : ServerAnswer(r) /\ UNCHANGED <<userOps, bulkVars, compVars>>
  \/ \E r \in InFlight : \E out \in AllOutcomes :
       SaveGameDone(r, out) /\ UNCHANGED <<userOps, bulkVars, compVars>>
  \/ \E r \in InFlight : \E out \in AllOutcomes :
       FetchGamesDone(r, out) /\ UNCHANGED <<userOps, bulkVars, compVars>>
  \/ \E r \in InFlight : \E out \in AllOutcomes :
       SaveCompletionistDone(r, out) /\ UNCHANGED <<userOps, bulkVars>>
  \/ \E r \in InFlight : \E out \in AllOutcomes :
       LoadCompletionistDone(r, out) /\ UNCHANGED <<userOps, bulkVars>>
  \/ \E out \in ItemOutcomes : ImportItemDone(out) /\ UNCHANGED <<userOps, compVars>>
  \/ AddGame /\ userOps < MaxFormOps /\ userOps' = userOps + 1
       /\ UNCHANGED <<bulkVars, compVars>>
  \/ \E id \in GameIds : EditGame(id) /\ userOps < MaxFormOps /\ userOps' = userOps + 1
       /\ UNCHANGED <<bulkVars, compVars>>
  \/ CloseModal /\ userOps < MaxFormOps /\ userOps' = userOps + 1
       /\ UNCHANGED <<bulkVars, compVars>>
  \/ \E t \in BOOLEAN : \E st \in FormStatuses : \E rating \in FormRatings :
       SaveGame(t, st, rating) /\ userOps < MaxFormOps /\ userOps' = userOps + 1
       /\ UNCHANGED <<bulkVars, compVars>>
  \/ \E id \in GameIds : \E existing \in ChallengeIds :
       ShowCompletionistModal(id, existing) /\ userOps < MaxFormOps
       /\ userOps' = userOps + 1 /\ UNCHANGED bulkVars
  \/ CloseCompModal /\ userOps < MaxFormOps /\ userOps' = userOps + 1 /\ UNCHANGED bulkVars
  \/ \E t \in BOOLEAN : \E typed \in DifficultyInputs :
       SaveCompletionist(t, typed) /\ userOps < MaxFormOps /\ userOps' = userOps + 1
       /\ UNCHANGED bulkVars
  \/ \E n \in ImportSizes : \E accept \in BOOLEAN :
       ImportJson(n, accept) /\ userOps < MaxFormOps /\ userOps' = userOps + 1
       /\ UNCHANGED compVars

\* The game form, the challenge form and the JSON import of a logged-in page.
SpecForms == InitForms /\ [][NextForms]_vars

\* The ids of the games on the cards of #games-list.
VisibleIds == {gamesList.cards[i].id : i \in 1..Len(gamesList.cards)}

\* Upper- and lower-case forms of the letters the model's texts use.
CasePairs == {<<"A", "a">>, <<"B", "b">>, <<"C", "c">>, <<"P", "p">>, <<"S", "s">>}

SameLetter(x, y) == x = y \/ <<x, y>> \in CasePairs \/ <<y, x>> \in CasePairs

\* term occurs in text as a run of letters, case ignored.
ContainsIgnoringCase(text, term) ==
  \E i \in 0..(Len(text) - Len(term)) :
    \A k \in 1..Len(term) : SameLetter(text[i + k], term[k])

\* A game satisfies the search, status and platform filters as the
\* specification states them.
SatisfiesFilters(g, f) ==
  /\ \/ f.search = <<>>
     \/ ContainsIgnoringCase(g.title, f.search)
     \/ g.notes # NullStr /\ ContainsIgnoringCase(g.notes, f.search)
     \/ g.tags # NullList /\ \E t \in 1..Len(g.tags) : ContainsIgnoringCase(g.tags[t], f.search)
  /\ f.status = "" \/ g.status = f.status
  /\ f.platform = "" \/ g.platform = f.platform

\* C1: a game of allGames is in the visible list if and only if it satisfies
\* all three filters in effect: the search term is empty or occurs, case
\* ignored, in its title, notes or one of its tags; the status filter is empty
\* or equals its status; the platform filter is empty or equals its platform.
C1_VisibleIffMatches ==
  gamesList.kind \in {"cards", "empty"} =>
    \A i \in 1..Len(allGames) :
      (allGames[i].id \in VisibleIds) <=> SatisfiesFilters(allGames[i], currentFilters)

\* C1 witness: with "AB" typed and status Playing chosen, the game titled "Ab"
\* is shown and the other fetched game is hidden.
C1_Witness ==
  /\ currentFilters.search = <<"a", "b">>
  /\ currentFilters.status = "Playing"
  /\ Len(allGames) = 2
  /\ VisibleIds = {1}

\* ------------------------------------------------------------ visible list

\* C2: the rendered game list is a subset of allGames: every card is a game of
\* allGames (games are identified by id), no game has two cards, and there are
\* no more cards than allGames has entries.
C2_VisibleSubset ==
  /\ \A i \in 1..Len(gamesList.cards) : gamesList.cards[i].id \in Ids(allGames)
  /\ \A i, j \in 1..Len(gamesList.cards) :
       gamesList.cards[i].id = gamesList.cards[j].id => i = j
  /\ Len(gamesList.cards) <= Len(allGames)

\* C2 witness: after a fetch, a status filter, a favourite toggle and a switch
\* to batch mode, one of the two games of allGames is on screen, as a
\* favourite, with its checkbox.
C2_Witness ==
  /\ Len(allGames) = 2
  /\ currentFilters.status = "Completed"
  /\ Len(gamesList.cards) = 1
  /\ gamesList.cards[1].is_favorite
  /\ gamesList.batch

\* ------------------------------------------------------------- failed reads

\* What a handler sees of a backend call that failed.
Failures == {"http401", "http500", "neterr", "badjson"}

\* C3: a fetchGames() that fails (network error, non-success status, body that
\* does not parse) leaves allGames exactly as it was.
C3_FailedReadKeepsCache ==
  [][(ev'.op = "fetchGames" /\ ev'.resp \in Failures) => allGames' = allGames]_vars

\* C3 witness: a fetchGames() has just failed on a page whose cache holds games.
C3_Witness ==
  /\ ev.op = "fetchGames"
  /\ ev.resp \in Failures
  /\ allGames # <<>>

\* C4: a fetchGames() that fails after an earlier one of this page succeeded
\* leaves the rendered list as it was.
C4_FailedReadKeepsView ==
  [][(ev'.op = "fetchGames" /\ ev'.resp \in Failures /\ fetchedOk)
       => gamesList' = gamesList]_vars

\* ------------------------------------------------------------ failed writes

\* The writes of the games tab.
GameWriteOps == {"toggleFavorite", "deleteGame", "updateGameFromSteam", "saveGame"}

\* C5: a game create, update or delete, a favourite toggle or a Steam update
\* whose response is a failure changes no entry of allGames; the cache is the
\* one of before, or the page is loaded anew (save-game on a 401) and starts
\* with the empty cache that only a fetch fills.
C5_FailedWriteKeepsCache ==
  [][(ev'.op \in GameWriteOps /\ ev'.resp \in Failures)
       => \/ allGames' = allGames
          \/ /\ allGames' = <<>>
             /\ gamesList' = InitialList
             /\ inflight' = SetToBag({Request("checkAuth", 0)})]_vars

\* C5 witness: a write has just failed on a page whose cache holds games.
C5_Witness ==
  /\ ev.op \in GameWriteOps
  /\ ev.resp \in Failures
  /\ allGames # <<>>
  /\ \E i \in 1..Len(allGames) : allGames[i].is_favorite

\* C6: after a write that the backend answered with 401 the flag isLoggedIn
\* is false.
C6_UnauthorizedRevertsFlag ==
  [][(ev'.op \in WriteOps /\ ev'.resp = "http401") => ~isLoggedIn']_vars

\* C7: every backend call that fails gives the user a notice.
C7_FailureNoticed ==
  [][(ev'.resp \in Failures) => ev'.notice]_vars

\* ------------------------------------------------------- destructive requests

\* The requests that destroy or replace persisted data.
DestructiveOps == {"deleteGame", "batchDeleteGames", "saveTop10"}

\* C8: no destructive request (single delete, bulk delete, the POST that
\* replaces the persisted Top-10) is in flight unless the user accepted a
\* confirmation dialog in the operation that sent it.
C8_DestructiveConfirmed ==
  \A r \in InFlight : r.op \in DestructiveOps => r.confirmed

\* ----------------------------------------------------------- Top-10 capacity

\* C9: the Top-10 draft never holds more than 10 entries, and an add attempted
\* while it holds 10 is refused with a notice and leaves the draft as it was.
C9_DraftWithinCapacity ==
  /\ [](Len(top10Games) <= Top10Capacity)
  /\ [][(Len(top10Games) = Top10Capacity /\ ev'.op = "addGameToTop10")
          => (ev'.notice /\ top10Games' = top10Games)]_vars

\* C9 witness: an add was just refused on a draft of 10 entries.
C9_Witness ==
  /\ ev = Event("addGameToTop10", "none", TRUE)
  /\ Len(top10Games) = Top10Capacity

\* ---------------------------------------------------------- Top-10 positions

Top10EditOps == {"addGameToTop10", "removeFromTop10", "dropTop10"}

\* C10: the positions of the N entries of the draft are exactly 1..N, as
\* transmitted by saveTop10 and as rendered in the editor: every list in a
\* POST /api/top10 carries position i at index i, the selection items are
\* numbered 1, 2, ... without gap, and after an add, remove or reorder (on a
\* draft without a hole left by a drag on a stale item) there is one item per
\* entry, in the draft's order.
C10_PositionsContiguous ==
  /\ \A r \in InFlight :
       r.op = "saveTop10" => \A i \in 1..Len(r.top10) : r.top10[i].position = i
  /\ \A i \in 1..Len(top10Dom.selection) : top10Dom.selection[i].rank = i
  /\ (ev.op \in Top10EditOps /\ ~ev.notice /\ ~HasUndefined(top10Games)) =>
       /\ Len(top10Dom.selection) = Len(top10Games)
       /\ \A i \in 1..Len(top10Games) :
            top10Dom.selection[i].game_id = top10Games[i].game_id

\* C10 witness: a draft from which the first entry was removed is on its way
\* to the backend.
C10_Witness ==
  \E r \in InFlight :
    /\ r.op = "saveTop10"
    /\ Len(r.top10) >= 2
    /\ r.top10[1].game_id = 2


\* The text of an annotation: null is the empty annotation.
ReasonText(list) == [i \in 1..Len(list) |-> OrEmptyName(list[i].why_i_love_it)]

\* Two Top-10 lists with the same number of entries, the same game ids in the
\* same order and the same annotation texts.
SameTop10(a, b) ==
  /\ Len(a) = Len(b)
  /\ EntryIds(a) = EntryIds(b)
  /\ ReasonText(a) = ReasonText(b)

\* The requests this step has put in flight.
NewlySent(op) ==
  {q \in BagToSet(inflight') :
     /\ q.op = op /\ q.status = "sent"
     /\ CopiesIn(q, inflight') > CopiesIn(q, inflight)}

\* This step is the backend answering request r of that kind with a success a.
Answered(op, r, a) ==
  /\ r.op = op /\ r.status = "sent"
  /\ a.op = op /\ a.status = "ok"
  /\ inflight' = Send(Take(inflight, r), a)

C12_DraftDecoupled ==
  [][ /\ serverTop10' # serverTop10
           => \E r \in InFlight : \E a \in BagToSet(inflight') : Answered("saveTop10", r, a)
      /\ /\ ev'.op = "loadTop10"
         /\ ~isEditingTop10' /\ ~top10Dom'.modal
         /\ Pending(TRUE)' = 0
         => SameTop10(top10Games', serverTop10')
    ]_vars


\* ------------------------------------------------------------ bulk operations

\* C13: a bulk delete transmits exactly the selected ids and a bulk update
\* sends requests only for selected ids; whenever a bulk action has completed,
\* with success or with failure, or batch mode is left, batchMode is false
\* and selectedGames is empty; the backend has none of the deleted ids after
\* an accepted bulk delete, and a successful refetch makes allGames the list
\* the backend answered with.
C13_BulkLeavesBatchMode ==
  [][ /\ \A q \in NewlySent("batchDeleteGames") : q.ids = selectedGames
      /\ Len(bulk'.attempted) > Len(bulk.attempted)
           => bulk'.attempted[Len(bulk'.attempted)] \in selectedGames
      /\ /\ ev'.op \in {"batchDeleteGames", "batchUpdateStatus"}
         /\ ev'.resp \notin {"none", "started"}
         => ~batchMode' /\ selectedGames' = {}
      /\ batchMode /\ ~batchMode' => selectedGames' = {}
      /\ \A r \in InFlight : \A a \in BagToSet(inflight') :
           Answered("batchDeleteGames", r, a) => Ids(serverGames') \cap r.ids = {}
      /\ ev'.op = "fetchGames" /\ ev'.resp = "ok"
           => \E r \in InFlight : r.op = "fetchGames" /\ allGames' = r.games
    ]_vars


\* The number of failed items a summary message shows, -1 if it shows none.
FailedShown(message) == IF "failed" \in DOMAIN message THEN message.failed ELSE -1

\* C14: in a bulk Steam update and in a JSON import a failed item does not
\* keep the remaining items from being attempted, and the final message shows
\* the number of items that failed.
C14_ItemsIndependent ==
  [][ /\ bulk.phase # "idle" /\ SlotsLeft(bulk) # {} => bulk'.phase # "idle"
      /\ importJob.phase = "post" /\ importJob.left > 0 => importJob'.phase = "post"
      /\ ev'.op = "batchUpdateStatus" /\ ev'.resp = "done"
           => FailedShown(bulk'.message) = bulk'.failed
      /\ ev'.op = "importJson" /\ ev'.resp \in {"done", "throws"}
           => FailedShown(importJob'.message) = importJob'.failed
    ]_vars


\* C15: a bulk Steam update that has finished has sent a request for every id
\* that was selected when it started, and for each exactly once, whatever the
\* user did to batch mode and the selection in the meantime.
C15_EverySelectedIdOnce ==
  [][ ev'.op = "batchUpdateStatus" /\ ev'.resp = "done"
        => /\ {bulk'.attempted[i] : i \in 1..Len(bulk'.attempted)} = bulk'.started
           /\ Len(bulk'.attempted) = Cardinality(bulk'.started)
    ]_vars

\* The long-running operations and their trigger controls.
TriggerOf ==
  [batchUpdateStatus |-> "batch-update", updateAllSteam |-> "update-all-steam",
   batchDeleteGames |-> "batch-delete"]

\* C16: the trigger control of a bulk Steam update, an update-all-from-Steam
\* or a bulk delete is disabled exactly while the operation is in progress,
\* and no two invocations of the same operation are in progress.
C16_TriggerDisabledInFlight ==
  /\ \A op \in DOMAIN TriggerOf : (op \in Running) = (TriggerOf[op] \in disabled)
  /\ \A r \in InFlight :
       r.op \in DOMAIN TriggerOf
         => /\ CopiesIn(r, inflight) = 1
            /\ \A q \in InFlight : q.op = r.op => q.ids = r.ids /\ q.status = r.status


\* ------------------------------------------------------------- Top-10 search

\* C17: an input event on the Top-10 search box issues no search by itself;
\* the search runs when the 300 ms timer fires, for the term typed last, and
\* an input event within the delay replaces the pending term.
C17_SearchOnlyAfterQuiet ==
  [][ /\ ev'.op = "top10SearchInput" => ev'.resp # "searched"
      /\ ev'.op = "top10SearchInput" /\ top10Dom'.timer # <<>>
           => \E typed \in SearchTerms : top10Dom'.timer = ToLowerCase(Trim(typed))
      /\ ev'.op = "top10SearchTimer"
           => /\ top10Dom.timer # <<>> /\ top10Dom'.timer = <<>>
              /\ top10Dom'.results =
                   SearchAvailableGames(allGames, top10Games, top10Dom.timer)
    ]_vars


\* ------------------------------------------------------------ cache updates

\* C18: a toggleFavorite that settles with success for id g sets is_favorite
\* of the allGames entry with id g to the value the backend answered with,
\* leaves every other entry and every other field as it was, and renders the
\* list by the full pass over the new allGames; with no entry of id g,
\* allGames is unchanged.
C18_FavoriteUpdatesOneEntry ==
  [][ ev'.op = "toggleFavorite" /\ ev'.resp = "ok"
        => \E r \in InFlight :
             /\ r.op = "toggleFavorite" /\ r.status = "ok"
             /\ inflight' = Take(inflight, r)
             /\ Len(allGames') = Len(allGames)
             /\ \A i \in 1..Len(allGames) :
                  allGames'[i] =
                    (IF allGames[i].id = r.arg
                     THEN [allGames[i] EXCEPT !.is_favorite = r.flag]
                     ELSE allGames[i])
             /\ r.arg \in Ids(allGames)
                  => gamesList' =
                       RenderGames(Derive(allGames', currentFilters, currentSort),
                                   isLoggedIn, batchMode)
             /\ r.arg \notin Ids(allGames) => allGames' = allGames
    ]_vars

\* A favourite toggle has just succeeded on a cache of two games and the
\* toggled game's flag in the cache is now the backend's.
C18_Witness ==
  /\ ev.op = "toggleFavorite" /\ ev.resp = "ok"
  /\ Len(allGames) = 2
  /\ \E i \in 1..2 :
       /\ allGames[i].is_favorite # Catalog[allGames[i].id].is_favorite
       /\ allGames[i].is_favorite = serverGames[i].is_favorite
       /\ allGames[3 - i].is_favorite = Catalog[allGames[3 - i].id].is_favorite


\* C19: a step that changes allGames renders the list by the full pass over
\* the new allGames within the same step, so no later event finds a list
\* rendered from an older allGames.  (A page load, which starts with the empty
\* cache and the page's own HTML, is not a mutation of the cache.)
C19_MutationRederives ==
  [][ allGames' # allGames /\ ~(allGames' = <<>> /\ gamesList' = InitialList)
        => gamesList' =
             ApplySortingAndFiltering(allGames', currentFilters', currentSort',
                                      isLoggedIn', batchMode')
    ]_vars


\* C20: the visible list is a function of allGames, the filters and the sort
\* key alone: it is the derivation of allGames under the filters and sort key
\* in effect, whatever was rendered before; it holds the games of allGames
\* that pass the filters, in the order of the sort key with equal games in
\* fetch order; deriving it again under the same filters and sort key gives
\* the same list; and no filter or sort change alters allGames.
C20_DerivationPure ==
  /\ [](LET cards == gamesList.cards
        IN /\ cards = Derive(allGames, currentFilters, currentSort)
           /\ Derive(cards, currentFilters, currentSort) = cards
           /\ \A i, j \in 1..Len(cards) :
                i < j =>
                  /\ Compare(cards[i], cards[j], currentSort) <= 0
                  /\ Compare(cards[i], cards[j], currentSort) = 0
                       => FindIndex(allGames, cards[i].id) < FindIndex(allGames, cards[j].id))
  /\ [][allGames' = allGames]_vars

\* Two games that are equal under the sort key in effect are shown in fetch
\* order, after the user has changed the sort key and the search term.
C20_Witness ==
  /\ Len(gamesList.cards) = 2
  /\ Compare(gamesList.cards[1], gamesList.cards[2], currentSort) = 0
  /\ currentSort # "recent"
  /\ currentFilters.search # <<>>
  /\ gamesList.cards = allGames


\* ------------------------------------------------------------------ sorting

Sgn(n) == IF n < 0 THEN 0 - 1 ELSE IF n > 0 THEN 1 ELSE 0

\* The rows the comparators are tried on.
Rows == {DeriveCatalog[i] : i \in 1..Len(DeriveCatalog)}

\* C21: under every sort key the comparator orders the games consistently:
\* comparing b with a gives the opposite sign of comparing a with b, and
\* "not after" is transitive, with missing fields too; and the games of the
\* visible list that are equal under the sort key in effect are in their
\* allGames order.
C21_ComparatorTotalAndStable ==
  /\ \A key \in SortKeys : \A a, b \in Rows :
       Sgn(Compare(b, a, key)) = 0 - Sgn(Compare(a, b, key))
  /\ \A key \in SortKeys : \A a, b, c \in Rows :
       Compare(a, b, key) <= 0 /\ Compare(b, c, key) <= 0 => Compare(a, c, key) <= 0
  /\ \A i, j \in 1..Len(gamesList.cards) :
       i < j /\ Compare(gamesList.cards[i], gamesList.cards[j], currentSort) = 0
         => FindIndex(allGames, gamesList.cards[i].id)
              < FindIndex(allGames, gamesList.cards[j].id)

\* After the user has changed the sort key, two games that are equal under the
\* key in effect (created at the same time under 'recent', of the same status
\* under 'status') are shown in fetch order, which is not their id order.
C21_Witness ==
  /\ Len(gamesList.cards) = 2
  /\ localStorage.sort # ""
  /\ \/ /\ currentSort = "recent"
        /\ gamesList.cards[1].created_at = gamesList.cards[2].created_at
        /\ gamesList.cards[1].id > gamesList.cards[2].id
     \/ /\ currentSort = "status"
        /\ gamesList.cards[1].status = gamesList.cards[2].status
        /\ gamesList.cards[1].id > gamesList.cards[2].id


\* The number a numeric sort key orders a game by: the field, 0 if it is
\* missing.
SortValue(g, key) ==
  LET field == CASE key \in {"hours", "hours-asc"} -> g.hours_played
                 [] key \in {"rating", "rating-asc"} -> g.rating
                 [] OTHER -> g.completion_percentage
  IN IF field = NullNum THEN 0 ELSE field

\* C22: under 'hours', 'rating' and 'completion' the visible list is in
\* non-increasing order of hours_played, rating and completion percentage,
\* under 'hours-asc', 'rating-asc' and 'completion-asc' in non-decreasing
\* order, a missing value counting as 0.
C22_NumericOrder ==
  \A i, j \in 1..Len(gamesList.cards) :
    i < j =>
      /\ currentSort \in {"hours", "rating", "completion"}
           => SortValue(gamesList.cards[i], currentSort)
                >= SortValue(gamesList.cards[j], currentSort)
      /\ currentSort \in {"hours-asc", "rating-asc", "completion-asc"}
           => SortValue(gamesList.cards[i], currentSort)
                <= SortValue(gamesList.cards[j], currentSort)

\* The game with 5 hours was fetched before the game with 20 hours and under
\* 'hours' the one with 20 hours is shown first.
C22_Witness ==
  /\ currentSort = "hours"
  /\ Ids(allGames) = {1, 2} /\ allGames[1].id = 1
  /\ allGames[1].hours_played = 5 /\ allGames[2].hours_played = 20
  /\ Len(gamesList.cards) = 2
  /\ gamesList.cards[1].id = 2 /\ gamesList.cards[2].id = 1


\* --------------------------------------------------------- persisted choices

FilterFields == {"search", "status", "platform"}

\* C23: the sort key and the filter values the user chose last are what a
\* page load comes back with: a saved sort key or filter value changes only
\* when the user changes that choice, and then to the value chosen; the script
\* starts with the saved sort key; and when the page's initialisation runs
\* loadSavedFilters the three filters are the saved values.
C23_ChoicesSurviveReload ==
  [][ /\ \A f \in FilterFields :
           localStorage'[f] # localStorage[f]
             => currentFilters'[f] # currentFilters[f] /\ localStorage'[f] = currentFilters'[f]
      /\ localStorage'.sort # localStorage.sort
           => currentSort' # currentSort /\ localStorage'.sort = currentSort'
      /\ inflight' = SetToBag({Request("checkAuth", 0)}) /\ gamesList' = InitialList
           => currentSort' = (IF localStorage.sort = "" THEN "recent" ELSE localStorage.sort)
      /\ ev'.op = "checkAuth"
           => \A f \in FilterFields : currentFilters'[f] = localStorage[f]
    ]_vars


\* ------------------------------------------------------------ validation

\* A number the data model allows in a field: absent, or within the range.
InRange(n, low, high) == n = NullNum \/ (n >= low /\ n <= high)

\* C24: validation errors are caught before dispatch: a save of a game or of a
\* challenge without a title sends nothing; no request to save a game carries a
\* rating outside 0..5 and none to save a challenge a difficulty outside
\* 1..100; an import of text that is no JSON array posts nothing.
C24_ValidatedBeforeDispatch ==
  /\ [](\A r \in InFlight :
          /\ r.op = "saveGame" => InRange(r.num, 0, 5)
          /\ r.op = "saveCompletionist" => InRange(r.num, 1, 100))
  /\ [][ /\ (\E st \in FormStatuses : \E rating \in FormRatings : SaveGame(FALSE, st, rating))
              => inflight' = inflight /\ ev'.notice
         /\ (\E typed \in DifficultyInputs : SaveCompletionist(FALSE, typed))
              => inflight' = inflight /\ ev'.notice
         /\ (\E accept \in BOOLEAN : ImportJson(0, accept))
              => inflight' = inflight /\ importJob'.phase = "idle" /\ ev'.notice
       ]_vars

\* ------------------------------------------------------- challenge reload

\* C29: when a save of a challenge of game g has settled with the backend's
\* acceptance, the request then sent to reload the challenge list is for g.
C29_ReloadTargetsSavedGame ==
  [][ \A g \in GameIds :
        (/\ ev'.op = "saveCompletionist" /\ ev'.resp = "ok"
         /\ \E r \in InFlight : /\ r.op = "saveCompletionist" /\ r.arg = g /\ r.status = "ok"
                                /\ CopiesIn(r, inflight') < CopiesIn(r, inflight))
          => /\ NewlySent("loadCompletionist") # {}
             /\ \A q \in NewlySent("loadCompletionist") : q.arg = g
    ]_vars


\* ------------------------------------------------------ overlapping fetches

\* The fetchGames() calls whose response this step has handled.
FetchSettled ==
  {r \in InFlight : r.op = "fetchGames" /\ CopiesIn(r, inflight') < CopiesIn(r, inflight)}

\* C25: of the fetchGames() calls in flight at the same time, the response
\* that allGames ends up holding is that of the call made last: a response
\* that fetchGames() stores and that changes allGames is never that of a call
\* made before the call whose response allGames already holds.
C25_LatestFetchWins ==
  [][ (ev'.op = "fetchGames" /\ ev'.resp = "ok")
        => \A r \in FetchSettled : r.seq > fetchOrder \/ allGames' = allGames
    ]_vars


\* ------------------------------------------------------- Top-10 duplicates

\* C26: no game is in top10Games twice: no two entries of the list have the
\* same game_id.
C26_NoDuplicateEntries ==
  \A i, j \in 1..Len(top10Games) :
    (i < j /\ top10Games[i] # Undefined /\ top10Games[j] # Undefined)
      => top10Games[i].game_id # top10Games[j].game_id


\* ------------------------------------------------------ selection and cache

\* C27: the selection holds only ids of games that are in allGames.
C27_SelectionWithinCache == selectedGames \subseteq Ids(allGames)


\* ------------------------------------------------------- writes and login

\* C28: no write request is sent while isLoggedIn is false: a step that puts
\* a create, update, delete, favourite, bulk or Top-10 save request in flight
\* starts in a state where the flag is set.
C28_WritesOnlyWhenLoggedIn ==
  [][ (\E op \in WriteOps : NewlySent(op) # {}) => isLoggedIn ]_vars


\* --------------------------------------------------------- Top-10 reorder

\* The entries of a list other than those of one game, in order.
OtherEntries(list, id) == LET Keep(e) == e.game_id # id IN SelectSeq(list, Keep)

\* C30: dropping one selection item on another permutes top10Games: the
\* length stays, the entries other than the dragged one stay as they were and
\* in their order, and the dragged entry is next to the target's entry,
\* before it after a drop on the upper half and behind it after a drop on the
\* lower half.
C30_DropIsPermutation ==
  [][ \A from, to \in DragIndices : \A lowerHalf \in BOOLEAN :
        DropTop10(from, to, lowerHalf) =>
          LET dragged == top10Dom.selection[from + 1].game_id
              target == top10Dom.selection[to + 1].game_id
          IN /\ Len(top10Games') = Len(top10Games)
             /\ OtherEntries(top10Games', dragged) = OtherEntries(top10Games, dragged)
             /\ \E p \in 1..Len(top10Games') :
                  /\ top10Games'[p].game_id = dragged
                  /\ \E q \in 1..Len(top10Games) : top10Games[q] = top10Games'[p]
                  /\ IF lowerHalf
                     THEN p > 1 /\ top10Games'[p - 1].game_id = target
                     ELSE p < Len(top10Games') /\ top10Games'[p + 1].game_id = target
    ]_vars

====
